---- MODULE Spec2Model ----
(***************************************************************************)
(* Model of the 31 card game (Pixi.js): Deck, GameController, Game,        *)
(* Player2Controller, AIPlayer and PointsCalculator.                       *)
(*                                                                         *)
(* Every asynchronous step of the program (interval firing, animation      *)
(* ticker reaching its last frame, timeout firing) is one action.  A       *)
(* sprite that has left one container and not yet reached the next is "in  *)
(* flight"; the program only updates part of its state when the sprite     *)
(* lands.                                                                  *)
(***************************************************************************)
EXTENDS Integers, Sequences, FiniteSets, TLC

(***************************************************************************)
(* Bounds of the model                                                     *)
(***************************************************************************)
\* number of random streams Math.random may follow in Deck.shuffle
NumSeeds == 2
\* number of End Turn clicks explored
MaxTurns == 2
\* number of Restart Game clicks explored
MaxRestarts == 1
\* Deck-level specification: the constructor is given the first
\* 1..MaxDeckSuits suits and the first 1..MaxDeckRanks ranks (at most all
\* of them)
MaxDeckSuits == 4
MaxDeckRanks == 13
\* scoring specification: hands of up to MaxHandLen cards
MaxHandLen == 3
\* AIPlayer specification: hands of up to MaxAIHandLen cards, discard piles
\* of up to MaxPileDepth cards
MaxAIHandLen == 5
MaxPileDepth == 6

(***************************************************************************)
(* cardTypes/index.js, cardSwapping/index.js                               *)
(***************************************************************************)
suits == <<"hearts", "diamonds", "flowers", "spades">>

ranks == <<"A", "2", "3", "4", "5", "6", "7", "8", "9", "10", "J", "Q", "K">>

\* new Card(suitSymbol, suit, rank, id): suitSymbol and id are functions of
\* (suit, rank, position in ranks) and are never read by the game logic
Card(suit, rank) == [suit |-> suit, rank |-> rank]

\* the value Array.prototype.pop returns on an empty array
Undefined == [suit |-> "undefined", rank |-> "undefined"]

\* no call has returned yet
NoReturn == [suit |-> "none", rank |-> "none"]

\* getSuitSymbol: "H" stands for the heart glyph, "D" diamond, "C" club,
\* "S" spade; any other suit gives the empty symbol
getSuitSymbol(suit) ==
  CASE suit = "hearts"   -> "H"
    [] suit = "diamonds" -> "D"
    [] suit = "flowers"  -> "C"
    [] suit = "spades"   -> "S"
    [] OTHER             -> ""

\* the table with the ace counted 1
rankOrder_AceLow(rank) ==
  CASE rank = "A"  -> 1
    [] rank = "2"  -> 2
    [] rank = "3"  -> 3
    [] rank = "4"  -> 4
    [] rank = "5"  -> 5
    [] rank = "6"  -> 6
    [] rank = "7"  -> 7
    [] rank = "8"  -> 8
    [] rank = "9"  -> 9
    [] rank = "10" -> 10
    [] rank = "J"  -> 10
    [] rank = "Q"  -> 10
    [] rank = "K"  -> 10

\* rankOrder[rank]
rankOrder(rank) ==
  CASE rank = "A"  -> 11
    [] rank = "2"  -> 2
    [] rank = "3"  -> 3
    [] rank = "4"  -> 4
    [] rank = "5"  -> 5
    [] rank = "6"  -> 6
    [] rank = "7"  -> 7
    [] rank = "8"  -> 8
    [] rank = "9"  -> 9
    [] rank = "10" -> 10
    [] rank = "J"  -> 10
    [] rank = "Q"  -> 10
    [] rank = "K"  -> 10

(***************************************************************************)
(* Generic sequence helpers (Array.prototype semantics)                    *)
(***************************************************************************)
\* F applied to the value of v: the argument is evaluated once, before the
\* call, as JavaScript evaluates it
Apply(F(_), v) == CHOOSE r \in {F(x) : x \in {v}} : TRUE

\* Array.prototype.filter
RECURSIVE Filter(_, _)
Filter(s, keep) ==
  IF s = <<>> THEN <<>>
  ELSE IF Head(s) \in keep THEN <<Head(s)>> \o Filter(Tail(s), keep)
       ELSE Filter(Tail(s), keep)

\* Array.prototype.splice(i, 1) with a 0-based index i
RemoveAt(s, i) == [k \in 1..(Len(s) - 1) |-> IF k <= i THEN s[k] ELSE s[k + 1]]

\* Array.prototype.pop: the array that remains
Pop(s) == IF s = <<>> THEN <<>> ELSE SubSeq(s, 1, Len(s) - 1)

\* Array.prototype.pop: the value returned
Top(s) == IF s = <<>> THEN Undefined ELSE s[Len(s)]

\* indices 1..Len(keys) ordered as a stable ascending sort by keys orders
\* them (Array.prototype.sort is stable)
RECURSIVE SortIdx(_, _)
SortIdx(keys, todo) ==
  IF todo = {} THEN <<>>
  ELSE Apply(LAMBDA m : <<m>> \o SortIdx(keys, todo \ {m}),
             CHOOSE i \in todo :
               \A j \in todo : keys[i] < keys[j] \/ (keys[i] = keys[j] /\ i <= j))

StableSort(keys) == Apply(LAMBDA ks : SortIdx(ks, 1..Len(ks)), keys)

RECURSIVE SeqSum(_)
SeqSum(s) == IF s = <<>> THEN 0 ELSE Head(s) + SeqSum(Tail(s))

\* Math.max(...values); -1 stands for -Infinity (no values)
RECURSIVE SeqMax(_)
SeqMax(s) ==
  IF s = <<>> THEN -1
  ELSE Apply(LAMBDA r : IF Head(s) >= r THEN Head(s) ELSE r, SeqMax(Tail(s)))

(***************************************************************************)
(* game/Deck.js                                                            *)
(***************************************************************************)
\* Math.floor(Math.random() * (i + 1)) along random stream `seed`: a value
\* of 0..i that varies with the stream and with the call
RandomIndex(seed, i) ==
  ((i * i * (seed + 3) + i * 3 + seed * seed * 2 + seed * 11 + 5) % 53) % (i + 1)

\* the loop with cards[i] = cards[j] in place of the swap
RECURSIVE ShuffleFrom_Overwrite(_, _, _)
ShuffleFrom_Overwrite(cs, i, seed) ==
  IF i <= 0 THEN cs
  ELSE LET j == RandomIndex(seed, i)
           copied == [cs EXCEPT ![i + 1] = cs[j + 1]]
       IN ShuffleFrom_Overwrite(copied, i - 1, seed)

\* Deck.shuffle: for (i = n - 1; i > 0; i--) swap cards[i], cards[j]
\* (i is the 0-based index of the source)
RECURSIVE ShuffleFrom(_, _, _)
ShuffleFrom(cs, i, seed) ==
  IF i <= 0 THEN cs
  ELSE LET j == RandomIndex(seed, i)
           swapped == [cs EXCEPT ![i + 1] = cs[j + 1], ![j + 1] = cs[i + 1]]
       IN ShuffleFrom(swapped, i - 1, seed)

shuffle(cs, seed) == ShuffleFrom(cs, Len(cs) - 1, seed)

\* suits.flatMap(suit => ranks.map(rank => new Card(..))).slice(0, 52)
BuildCards(ss, rs) ==
  LET all == [k \in 1..(Len(ss) * Len(rs)) |->
                Card(ss[((k - 1) \div Len(rs)) + 1], rs[((k - 1) % Len(rs)) + 1])]
  IN IF Len(all) > 52 THEN SubSeq(all, 1, 52) ELSE all

\* new Deck(suits, ranks)
NewDeck(ss, rs, seed) == shuffle(BuildCards(ss, rs), seed)

(***************************************************************************)
(* AIPlayer.calculatePointsBySuit and PointsCalculator                     *)
(***************************************************************************)
\* the keys of the object built by reduce, in insertion order
RECURSIVE SuitKeys(_)
SuitKeys(hand) ==
  IF hand = <<>> THEN <<>>
  ELSE LET sym == getSuitSymbol(hand[Len(hand)].suit)
       IN Apply(LAMBDA rest : IF \E k \in 1..Len(rest) : rest[k] = sym
                                THEN rest ELSE Append(rest, sym),
                SuitKeys(SubSeq(hand, 1, Len(hand) - 1)))

SuitTotal(hand, sym) ==
  SeqSum([k \in 1..Len(hand) |->
            IF getSuitSymbol(hand[k].suit) = sym THEN rankOrder(hand[k].rank) ELSE 0])

SuitCount(hand, sym) ==
  Cardinality({k \in 1..Len(hand) : getSuitSymbol(hand[k].suit) = sym})

\* calculatePointsBySuit: the entries <<symbol, total>> of the object, in
\* insertion order; suits absent from the hand have no entry
calculatePointsBySuit(hand) ==
  Apply(LAMBDA keys : [k \in 1..Len(keys) |-> <<keys[k], SuitTotal(hand, keys[k])>>],
        SuitKeys(hand))

\* Math.max(...Object.values(pointsBySuit))
MaxPoints(hand) ==
  Apply(LAMBDA p : SeqMax([k \in 1..Len(p) |-> p[k][2]]), calculatePointsBySuit(hand))

(***************************************************************************)
(* ai/AIPlayer.js                                                          *)
(***************************************************************************)
\* Object.entries(pointsBySuit).sort((a, b) => b[1] - a[1])[0]
BestSuitEntry(hand) ==
  Apply(LAMBDA p : p[StableSort([k \in 1..Len(p) |-> 0 - p[k][2]])[1]],
        calculatePointsBySuit(hand))

\* AIPlayer.findWeakestCard
findWeakestCard(hand) ==
  LET keys == SuitKeys(hand)
      \* sort by count ascending, then by points ascending
      order == StableSort([k \in 1..Len(keys) |->
                 SuitCount(hand, keys[k]) * 1000 + SuitTotal(hand, keys[k])])
      weakestSuit == keys[order[1]]
      group == Filter(hand, {c \in {hand[k] : k \in 1..Len(hand)} :
                               getSuitSymbol(c.suit) = weakestSuit})
      byRank == StableSort([k \in 1..Len(group) |-> rankOrder(group[k].rank)])
  IN group[byRank[1]]

\* AIPlayer.isCardBetterThanWeakest
isCardBetterThanWeakest(newCard, weakestCard, hand) ==
  LET newCardSuit == getSuitSymbol(newCard.suit)
      weakCardSuit == getSuitSymbol(weakestCard.suit)
      newCardValue == rankOrder(newCard.rank)
      weakCardValue == rankOrder(weakestCard.rank)
      strongestSuit == BestSuitEntry(hand)[1]
  IN \/ newCardSuit = strongestSuit /\ weakCardSuit # strongestSuit
     \/ newCardValue >= 10 /\ weakCardValue < 10
     \/ SuitCount(hand, newCardSuit) >= 2 /\ SuitCount(hand, weakCardSuit) = 1
     \/ newCardSuit = weakCardSuit /\ newCardValue > weakCardValue
     \/ SuitTotal(hand, weakCardSuit) < 15 /\ newCardValue >= 8

\* shouldDrawFromDiscardPile without its rule for the rank values 7 to 9
shouldDrawFromDiscardPile_NoMediumRule(hasTop, topDiscardCard, hand) ==
  IF ~hasTop THEN FALSE
  ELSE IF Len(hand) = 0 THEN TRUE
  ELSE LET currentBestSuit == BestSuitEntry(hand)
           discardCardSuit == getSuitSymbol(topDiscardCard.suit)
           discardCardValue == rankOrder(topDiscardCard.rank)
       IN IF discardCardSuit = currentBestSuit[1] THEN TRUE
          ELSE IF discardCardValue >= 10 /\ SuitCount(hand, discardCardSuit) < 2 THEN TRUE
          ELSE IF currentBestSuit[2] >= 25
                 THEN discardCardSuit = currentBestSuit[1] /\ discardCardValue >= 8
          ELSE IF Len(hand) >= 4
                 THEN isCardBetterThanWeakest(topDiscardCard, findWeakestCard(hand), hand)
          ELSE discardCardValue >= 10

\* shouldDrawFromDiscardPile with its last line returning false
shouldDrawFromDiscardPile_NoHighRule(hasTop, topDiscardCard, hand) ==
  IF ~hasTop THEN FALSE
  ELSE IF Len(hand) = 0 THEN TRUE
  ELSE LET currentBestSuit == BestSuitEntry(hand)
           discardCardSuit == getSuitSymbol(topDiscardCard.suit)
           discardCardValue == rankOrder(topDiscardCard.rank)
       IN IF discardCardSuit = currentBestSuit[1] THEN TRUE
          ELSE IF discardCardValue >= 10 /\ SuitCount(hand, discardCardSuit) < 2 THEN TRUE
          ELSE IF currentBestSuit[2] >= 25
                 THEN discardCardSuit = currentBestSuit[1] /\ discardCardValue >= 8
          ELSE IF Len(hand) >= 4
                 THEN isCardBetterThanWeakest(topDiscardCard, findWeakestCard(hand), hand)
          ELSE IF discardCardValue >= 7 /\ discardCardValue <= 9
                 THEN SuitCount(hand, discardCardSuit) > 0
          ELSE FALSE

\* AIPlayer.shouldDrawFromDiscardPile(topDiscardCard) on hand =
\* gameState.players[1].hand; hasTop is FALSE when topDiscardCard is null
shouldDrawFromDiscardPile(hasTop, topDiscardCard, hand) ==
  IF ~hasTop THEN FALSE
  ELSE IF Len(hand) = 0 THEN TRUE
  ELSE LET currentBestSuit == BestSuitEntry(hand)
           discardCardSuit == getSuitSymbol(topDiscardCard.suit)
           discardCardValue == rankOrder(topDiscardCard.rank)
       IN IF discardCardSuit = currentBestSuit[1] THEN TRUE
          ELSE IF discardCardValue >= 10 /\ SuitCount(hand, discardCardSuit) < 2 THEN TRUE
          ELSE IF currentBestSuit[2] >= 25
                 THEN discardCardSuit = currentBestSuit[1] /\ discardCardValue >= 8
          ELSE IF Len(hand) >= 4
                 THEN isCardBetterThanWeakest(topDiscardCard, findWeakestCard(hand), hand)
          ELSE IF discardCardValue >= 7 /\ discardCardValue <= 9
                 THEN SuitCount(hand, discardCardSuit) > 0
          ELSE discardCardValue >= 10

\* the position of the highest rank value instead
LowestFirst_Highest(hand, idx) ==
  Apply(LAMBDA ix : Apply(LAMBDA order : ix[order[Len(order)]],
                          StableSort([k \in 1..Len(ix) |-> rankOrder(hand[ix[k]].rank)])),
        idx)

\* the last position of the lowest rank value instead of the first
LowestFirst_LastOfEqual(hand, idx) ==
  Apply(LAMBDA ix :
          LET v(k) == rankOrder(hand[ix[k]].rank)
              low == CHOOSE k \in 1..Len(ix) :
                       \A j \in 1..Len(ix) : v(k) < v(j) \/ (v(k) = v(j) /\ k >= j)
          IN ix[low],
        idx)

\* first position (1-based) of the lowest rank value among hand[idx[k]]
LowestFirst(hand, idx) ==
  Apply(LAMBDA ix : Apply(LAMBDA order : ix[order[1]],
                          StableSort([k \in 1..Len(ix) |-> rankOrder(hand[ix[k]].rank)])),
        idx)

\* the 1-based positions in hand, in hand order, of the cards satisfying Keep
RECURSIVE IndicesWhere(_, _, _)
IndicesWhere(hand, k, keepSuits) ==
  IF k > Len(hand) THEN <<>>
  ELSE IF getSuitSymbol(hand[k].suit) \in keepSuits
         THEN <<k>> \o IndicesWhere(hand, k + 1, keepSuits)
       ELSE IndicesWhere(hand, k + 1, keepSuits)

\* concatenation of the index lists of the given suits, suit after suit
RECURSIVE IndicesBySuit(_, _)
IndicesBySuit(hand, syms) ==
  IF syms = <<>> THEN <<>>
  ELSE IndicesWhere(hand, 1, {Head(syms)}) \o IndicesBySuit(hand, Tail(syms))

\* selectCardToDiscard returning the position counted from one
selectCardToDiscard_OneBased(hand) ==
  IF Len(hand) = 0 THEN -1
  ELSE
    LET symsOf(seqOfKeys) == {seqOfKeys[k] : k \in 1..Len(seqOfKeys)}
        bySuitValue(keys) ==
          Apply(LAMBDA valueOrder : [k \in 1..Len(keys) |-> keys[valueOrder[k]]],
                StableSort([k \in 1..Len(keys) |->
                  0 - (SuitCount(hand, keys[k]) * 1000 + SuitTotal(hand, keys[k]))]))
        choice(keys, strongKeys, suitValues) ==
          LET strongOrder == StableSort([k \in 1..Len(strongKeys) |->
                                           0 - SuitTotal(hand, strongKeys[k])])
              strongestSuit == strongKeys[strongOrder[1]]
              cardsInWeakSuits == IndicesWhere(hand, 1, symsOf(keys) \ {strongestSuit})
              bestSuit == suitValues[1]
              secondBestSuit == suitValues[2]
              valueDifference == SuitTotal(hand, bestSuit) - SuitTotal(hand, secondBestSuit)
              otherSuits == Filter(keys, symsOf(keys) \ {bestSuit, secondBestSuit})
              weakestSuit == suitValues[Len(suitValues)]
          IN IF Len(strongKeys) > 0 /\ Len(cardsInWeakSuits) > 0
               THEN LowestFirst(hand, cardsInWeakSuits)
             ELSE IF /\ Len(suitValues) >= 2
                     /\ valueDifference <= 5
                     /\ SuitCount(hand, secondBestSuit) >= 2
                     /\ Len(otherSuits) > 0
               THEN LowestFirst(hand, IndicesBySuit(hand, otherSuits))
             ELSE LowestFirst(hand, IndicesWhere(hand, 1, {weakestSuit}))
    IN Apply(LAMBDA keys :
               Apply(LAMBDA strongKeys :
                       Apply(LAMBDA suitValues : choice(keys, strongKeys, suitValues),
                             bySuitValue(keys)),
                     Filter(keys, {sym \in symsOf(keys) : SuitCount(hand, sym) >= 3})),
             SuitKeys(hand))

\* AIPlayer.selectCardToDiscard(hand): a 0-based index, -1 for no card
selectCardToDiscard(hand) ==
  IF Len(hand) = 0 THEN -1
  ELSE
    LET symsOf(seqOfKeys) == {seqOfKeys[k] : k \in 1..Len(seqOfKeys)}
        \* 2. suits by card count descending, then total value descending
        bySuitValue(keys) ==
          Apply(LAMBDA valueOrder : [k \in 1..Len(keys) |-> keys[valueOrder[k]]],
                StableSort([k \in 1..Len(keys) |->
                  0 - (SuitCount(hand, keys[k]) * 1000 + SuitTotal(hand, keys[k]))]))
        choice(keys, strongKeys, suitValues) ==
          LET \* 1. suits with 3 or more cards, strongest first
              strongOrder == StableSort([k \in 1..Len(strongKeys) |->
                                           0 - SuitTotal(hand, strongKeys[k])])
              strongestSuit == strongKeys[strongOrder[1]]
              cardsInWeakSuits == IndicesWhere(hand, 1, symsOf(keys) \ {strongestSuit})
              bestSuit == suitValues[1]
              secondBestSuit == suitValues[2]
              valueDifference == SuitTotal(hand, bestSuit) - SuitTotal(hand, secondBestSuit)
              otherSuits == Filter(keys, symsOf(keys) \ {bestSuit, secondBestSuit})
              \* 3. the weakest suit
              weakestSuit == suitValues[Len(suitValues)]
          IN IF Len(strongKeys) > 0 /\ Len(cardsInWeakSuits) > 0
               THEN LowestFirst(hand, cardsInWeakSuits) - 1
             ELSE IF /\ Len(suitValues) >= 2
                     /\ valueDifference <= 5
                     /\ SuitCount(hand, secondBestSuit) >= 2
                     /\ Len(otherSuits) > 0
               THEN LowestFirst(hand, IndicesBySuit(hand, otherSuits)) - 1
             ELSE LowestFirst(hand, IndicesWhere(hand, 1, {weakestSuit})) - 1
    IN Apply(LAMBDA keys :
               Apply(LAMBDA strongKeys :
                       Apply(LAMBDA suitValues : choice(keys, strongKeys, suitValues),
                             bySuitValue(keys)),
                     Filter(keys, {sym \in symsOf(keys) : SuitCount(hand, sym) >= 3})),
             SuitKeys(hand))

\* shouldKnock without the test of 25 points or more
shouldKnock_Only31(hand, opp, vis, depth) ==
  IF Len(hand) # 3 THEN FALSE
  ELSE
    LET player2MaxPoints == MaxPoints(hand)
        player1VisibleCards == Filter(opp, vis)
        seen == Len(player1VisibleCards) > 0
        player1EstimatedMaxPoints ==
          IF seen THEN MaxPoints(player1VisibleCards)
          ELSE IF depth > 3 THEN 21 ELSE 19
        totalTurns == depth
    IN IF player2MaxPoints = 31 THEN TRUE
       ELSE IF seen /\ Len(player1VisibleCards) >= Len(opp) - 1
              THEN player2MaxPoints >= player1EstimatedMaxPoints + 1
       ELSE IF totalTurns < 3 THEN player2MaxPoints >= 26
       ELSE IF totalTurns < 6 THEN player2MaxPoints >= player1EstimatedMaxPoints + 2
       ELSE player2MaxPoints >= player1EstimatedMaxPoints + 1

\* shouldKnock without "if (hand.length !== 3) return false"
shouldKnock_AnyLength(hand, opp, vis, depth) ==
  LET player2MaxPoints == MaxPoints(hand)
      player1VisibleCards == Filter(opp, vis)
      seen == Len(player1VisibleCards) > 0
      player1EstimatedMaxPoints ==
        IF seen THEN MaxPoints(player1VisibleCards)
        ELSE IF depth > 3 THEN 21 ELSE 19
      totalTurns == depth
  IN IF player2MaxPoints = 31 THEN TRUE
     ELSE IF player2MaxPoints >= 25 THEN TRUE
     ELSE IF seen /\ Len(player1VisibleCards) >= Len(opp) - 1
            THEN player2MaxPoints >= player1EstimatedMaxPoints + 1
     ELSE IF totalTurns < 3 THEN player2MaxPoints >= 26
     ELSE IF totalTurns < 6 THEN player2MaxPoints >= player1EstimatedMaxPoints + 2
     ELSE player2MaxPoints >= player1EstimatedMaxPoints + 1

\* shouldKnock without the rule for an opponent whose cards are mostly seen
shouldKnock_NoVisibleRule(hand, opp, vis, depth) ==
  IF Len(hand) # 3 THEN FALSE
  ELSE
    LET player2MaxPoints == MaxPoints(hand)
        player1VisibleCards == Filter(opp, vis)
        seen == Len(player1VisibleCards) > 0
        player1EstimatedMaxPoints ==
          IF seen THEN MaxPoints(player1VisibleCards)
          ELSE IF depth > 3 THEN 21 ELSE 19
        totalTurns == depth
    IN IF player2MaxPoints = 31 THEN TRUE
       ELSE IF player2MaxPoints >= 25 THEN TRUE
       ELSE IF totalTurns < 3 THEN player2MaxPoints >= 26
       ELSE IF totalTurns < 6 THEN player2MaxPoints >= player1EstimatedMaxPoints + 2
       ELSE player2MaxPoints >= player1EstimatedMaxPoints + 1

\* shouldKnock with the margin of the mid game in the early game as well
shouldKnock_EarlyMargin(hand, opp, vis, depth) ==
  IF Len(hand) # 3 THEN FALSE
  ELSE
    LET player2MaxPoints == MaxPoints(hand)
        player1VisibleCards == Filter(opp, vis)
        seen == Len(player1VisibleCards) > 0
        player1EstimatedMaxPoints ==
          IF seen THEN MaxPoints(player1VisibleCards)
          ELSE IF depth > 3 THEN 21 ELSE 19
        totalTurns == depth
    IN IF player2MaxPoints = 31 THEN TRUE
       ELSE IF player2MaxPoints >= 25 THEN TRUE
       ELSE IF seen /\ Len(player1VisibleCards) >= Len(opp) - 1
              THEN player2MaxPoints >= player1EstimatedMaxPoints + 1
       ELSE IF totalTurns < 6 THEN player2MaxPoints >= player1EstimatedMaxPoints + 2
       ELSE player2MaxPoints >= player1EstimatedMaxPoints + 1

\* AIPlayer.shouldKnock() on hand = players[1].hand, opp = players[0].hand,
\* vis = the cards whose visible flag is true, depth = discardPile.length
shouldKnock(hand, opp, vis, depth) ==
  IF Len(hand) # 3 THEN FALSE
  ELSE
    LET player2MaxPoints == MaxPoints(hand)
        player1VisibleCards == Filter(opp, vis)
        seen == Len(player1VisibleCards) > 0
        player1EstimatedMaxPoints ==
          IF seen THEN MaxPoints(player1VisibleCards)
          ELSE IF depth > 3 THEN 21 ELSE 19
        totalTurns == depth
    IN IF player2MaxPoints = 31 THEN TRUE
       ELSE IF player2MaxPoints >= 25 THEN TRUE
       ELSE IF seen /\ Len(player1VisibleCards) >= Len(opp) - 1
              THEN player2MaxPoints >= player1EstimatedMaxPoints + 1
       ELSE IF totalTurns < 3 THEN player2MaxPoints >= 26
       ELSE IF totalTurns < 6 THEN player2MaxPoints >= player1EstimatedMaxPoints + 2
       ELSE player2MaxPoints >= player1EstimatedMaxPoints + 1

\* a hand in which an entry is undefined: reading card.suit throws TypeError
HasUndefined(hand) == \E k \in 1..Len(hand) : hand[k] = Undefined

(***************************************************************************)
(* State of the program                                                    *)
(***************************************************************************)
VARIABLES
  cards,               \* Deck.cards
  deckChildren,        \* deckContainer.getContainer().children.length
  discardPile,         \* gameState.discardPile
  pileChildren,        \* GameController.discardPile.children.length
  hand,                \* gameState.players[p].hand, p = 0, 1
  sprites,             \* the cards of the sprites in player p's hand container
  visible,             \* the cards whose visible flag is true
  currentPlayerIndex,  \* gameState.currentPlayerIndex
  player1HasDrawn, player1HasDiscarded,
  player2HasDrawn, player2HasDiscarded,
  knockedPlayer,       \* gameState.knockedPlayer, -1 while it is undefined
  isDealingCards, isAnimating,   \* Game flags
  isProcessingTurn,    \* Player2Controller.isProcessingTurn
  interactive,         \* the buttons whose interactive flag is true
  shown,               \* the buttons whose visible flag is true
  player1points, player2points,  \* PointsCalculator fields
  winnerText,          \* Game.winnerText.text
  dealing,             \* the setInterval of dealCardsOneByOne and its cardCount
  flying,              \* dealt sprites on their way to a hand, oldest first
  pileFlying,          \* sprites on their way from the deck to the discard pile
  p1Anim,              \* player 1's draw or discard animation in progress
  aiPc,                \* where Player2Controller.performTurn stands
  aiCard,              \* the card of the sprite player 2 is animating
  aiIdx,               \* cardIndexToDiscard of the discard in progress
  revealPc,            \* the knock whose reveal sequence is running
  listeners,           \* number of "discardCard" listeners on window
  turns,               \* End Turn clicks handled so far
  restarts,            \* Restart Game clicks handled so far
  lastRequest,         \* the player request handled by the last step
  ret                  \* value returned by the last direct call of a method

vars == <<cards, deckChildren, discardPile, pileChildren, hand, sprites, visible,
          currentPlayerIndex, player1HasDrawn, player1HasDiscarded,
          player2HasDrawn, player2HasDiscarded, knockedPlayer, isDealingCards,
          isAnimating, isProcessingTurn, interactive, shown, player1points,
          player2points, winnerText, dealing, flying, pileFlying, p1Anim, aiPc,
          aiCard, aiIdx, revealPc, listeners, turns, restarts, lastRequest, ret>>

deckVars == <<cards, deckChildren>>
pileVars == <<discardPile, pileChildren>>
flagVars == <<player1HasDrawn, player1HasDiscarded, player2HasDrawn, player2HasDiscarded>>
pointVars == <<player1points, player2points, winnerText>>
aiVars == <<aiPc, aiCard, aiIdx, isProcessingTurn>>
boundVars == <<listeners, turns, restarts>>

Buttons == {"startGame", "drawCardAction", "drawFromPile", "knock", "endTurn",
            "restartGame"}

PlayButtons == {"drawCardAction", "drawFromPile", "knock", "endTurn"}

NoRequest == [op |-> "none", accepted |-> FALSE]

Request(op, ok) == [op |-> op, accepted |-> ok]

\* tickers: the animations started for the card, each with its own Ticker
NoAnim == [kind |-> "none", card |-> Undefined, tickers |-> 0]

\* 40 animation frames (flipSpeed 0.08 up to PI) fit in three firings of the
\* 250 ms dealing interval: at most two dealt sprites are still in flight
\* when the interval fires
MaxDealInFlight == 2

(***************************************************************************)
(* PointsCalculator, Game.determineWinner, button state                    *)
(***************************************************************************)
\* PointsCalculator.updateTotalPoints / updatePlayer2TotalPoints: the new
\* value of player1points / player2points given the sprites in the hand
\* container; an empty container leaves the old value
updateTotalPoints(old, handSprites) ==
  IF Len(handSprites) = 0 THEN old ELSE MaxPoints(handSprites)

\* Game.determineWinner
determineWinner(p1, p2) ==
  IF p1 > p2 THEN "Player 1 is the winner!"
  ELSE IF p1 = p2 THEN "The game is a draw!"
  ELSE "Player 2 is the winner!"

\* updateKnockButtonState without the test of the number of sprites
updateKnockButtonState_AnyCount(inter, idx, n) ==
  IF idx = 0 THEN inter \cup {"knock"} ELSE inter \ {"knock"}

\* GameController.updateKnockButtonState
updateKnockButtonState(inter, idx, n) ==
  IF n = 3 /\ idx = 0 THEN inter \cup {"knock"} ELSE inter \ {"knock"}

\* GameController.updateEndTurnButtonState
updateEndTurnButtonState(inter, idx, n) ==
  IF idx = 0 /\ n # 4 THEN inter \cup {"endTurn"} ELSE inter \ {"endTurn"}

\* Game.updateButtonStates, reached with isDealingCards and isAnimating false
updateButtonStates(inter, idx, drawn, n) ==
  IF idx = 0
    THEN LET d == IF drawn THEN inter \ {"drawCardAction", "drawFromPile"}
                  ELSE inter \cup {"drawCardAction", "drawFromPile"}
         IN updateEndTurnButtonState(updateKnockButtonState(d, idx, n), idx, n)
  ELSE inter \ PlayButtons

(***************************************************************************)
(* Construction: new Game(app), and the state Game.restartGame rebuilds    *)
(***************************************************************************)
\* the cards on the table: the deck, the two hand arrays, the discard pile
\* and the cards whose visible flag is set
FreshTable(deck, hands, pile, vis) ==
  /\ cards = deck
  \* the discard pile container is a child of the deck container, next to
  \* one sprite per card
  /\ deckChildren = Len(deck) + 1
  /\ discardPile = pile
  /\ pileChildren = Len(pile)
  /\ hand = hands
  /\ visible = vis

\* everything else a new GameState, GameController and Player2Controller
\* start from
FreshControl ==
  /\ sprites = [p \in {0, 1} |-> <<>>]
  /\ currentPlayerIndex = 0
  /\ player1HasDrawn = FALSE
  /\ player1HasDiscarded = FALSE
  /\ player2HasDrawn = FALSE
  /\ player2HasDiscarded = FALSE
  /\ knockedPlayer = -1
  /\ isDealingCards = FALSE
  /\ isAnimating = FALSE
  /\ isProcessingTurn = FALSE
  /\ player1points = 0
  /\ player2points = 0
  /\ winnerText = ""
  /\ dealing = [running |-> FALSE, cardCount |-> 0]
  /\ flying = <<>>
  /\ pileFlying = <<>>
  /\ p1Anim = NoAnim
  /\ aiPc = "idle"
  /\ aiCard = Undefined
  /\ aiIdx = -1
  /\ revealPc = "none"

\* deck is the new Deck's cards, hands the two players' hand arrays
FreshRound(deck, hands) ==
  /\ FreshTable(deck, hands, <<>>, {})
  /\ FreshControl

NoHands == [p \in {0, 1} |-> <<>>]

\* every Button is constructed interactive and hidden; the start button is
\* then made visible; initEventListeners adds the first window listener
FreshSession ==
  /\ interactive = Buttons \ {"restartGame"}
  /\ shown = {"startGame"}
  /\ listeners = 1
  /\ turns = 0
  /\ restarts = 0
  /\ lastRequest = NoRequest
  /\ ret = NoReturn

Init ==
  /\ \E seed \in 0..(NumSeeds - 1) : FreshRound(NewDeck(suits, ranks, seed), NoHands)
  /\ FreshSession

(***************************************************************************)
(* Game: the Start Game button, GameController.dealCardsOneByOne           *)
(***************************************************************************)
\* startGameButton handler and the synchronous part of dealCardsOneByOne
StartGame ==
  /\ "startGame" \in shown /\ "startGame" \in interactive
  /\ isDealingCards' = TRUE
  /\ isAnimating' = TRUE
  \* disableAllButtons, then dealCardsOneByOne disables the four play buttons
  /\ interactive' = {}
  /\ shown' = (shown \cup PlayButtons) \ {"startGame"}
  /\ currentPlayerIndex' = 0
  /\ player1HasDrawn' = FALSE
  /\ player1HasDiscarded' = FALSE
  /\ player2HasDrawn' = FALSE
  /\ player2HasDiscarded' = FALSE
  /\ dealing' = [running |-> TRUE, cardCount |-> 0]
  \* updateTotalPoints after the await: the hand container is still empty
  /\ player1points' = updateTotalPoints(player1points, sprites[0])
  /\ lastRequest' = Request("start", TRUE)
  /\ UNCHANGED <<deckVars, pileVars, hand, sprites, visible, knockedPlayer,
                 player2points, winnerText, flying, pileFlying, p1Anim, aiVars,
                 revealPc, boundVars, ret>>

\* the interval callback while cardCount < totalCards: one card is dealt
DealCard ==
  /\ dealing.running
  /\ Len(flying) <= MaxDealInFlight
  /\ dealing.cardCount < 6 /\ deckChildren > 0
  /\ LET p == dealing.cardCount % 2
         card == Top(cards)
     IN /\ hand' = [hand EXCEPT ![p] = Append(@, card)]
        /\ cards' = Pop(cards)
        /\ deckChildren' = deckChildren - 1
        /\ flying' = Append(flying, [player |-> p, card |-> card])
  /\ dealing' = [dealing EXCEPT !.cardCount = @ + 1]
  /\ lastRequest' = NoRequest
  /\ UNCHANGED <<pileVars, sprites, visible, currentPlayerIndex, flagVars,
                 knockedPlayer, isDealingCards, isAnimating, interactive, shown,
                 pointVars, pileFlying, p1Anim, aiVars, revealPc, boundVars, ret>>

\* the ticker callback of a dealt card reaching flipProgress >= PI
DealLand ==
  /\ flying # <<>>
  /\ LET f == Head(flying)
     IN /\ sprites' = [sprites EXCEPT ![f.player] = Append(@, f.card)]
        \* "Make card visible for Player 1 so AI can estimate hand strength"
        /\ visible' = IF f.player = 0 THEN visible \cup {f.card} ELSE visible
  /\ flying' = Tail(flying)
  /\ lastRequest' = NoRequest
  /\ UNCHANGED <<deckVars, pileVars, hand, currentPlayerIndex, flagVars,
                 knockedPlayer, isDealingCards, isAnimating, interactive, shown,
                 pointVars, dealing, pileFlying, p1Anim, aiVars, revealPc,
                 boundVars, ret>>

\* the interval callback once six cards are dealt: clearInterval, both
\* totals, addCardToDiscardPileFromDeck up to the start of its animation,
\* then the flags are cleared and player 1's controls enabled
DealFinish ==
  /\ dealing.running
  /\ Len(flying) <= MaxDealInFlight
  /\ ~(dealing.cardCount < 6 /\ deckChildren > 0)
  /\ dealing' = [dealing EXCEPT !.running = FALSE]
  /\ player1points' = updateTotalPoints(player1points, sprites[0])
  /\ player2points' = updateTotalPoints(player2points, sprites[1])
  /\ IF deckChildren > 0
       THEN /\ cards' = Pop(cards)
            /\ deckChildren' = deckChildren - 1
            /\ pileFlying' = Append(pileFlying, Top(cards))
       ELSE UNCHANGED <<deckVars, pileFlying>>
  /\ isDealingCards' = FALSE
  /\ isAnimating' = FALSE
  /\ interactive' = interactive \cup PlayButtons
  /\ lastRequest' = NoRequest
  /\ UNCHANGED <<pileVars, hand, sprites, visible, currentPlayerIndex, flagVars,
                 knockedPlayer, shown, winnerText, flying, p1Anim, aiVars,
                 revealPc, boundVars, ret>>

\* the ticker callback of addCardToDiscardPileFromDeck reaching its last frame
PileLand ==
  /\ pileFlying # <<>>
  /\ pileChildren' = pileChildren + 1
  /\ discardPile' = Append(discardPile, Head(pileFlying))
  /\ pileFlying' = Tail(pileFlying)
  /\ lastRequest' = NoRequest
  /\ UNCHANGED <<deckVars, hand, sprites, visible, currentPlayerIndex, flagVars,
                 knockedPlayer, isDealingCards, isAnimating, interactive, shown,
                 pointVars, dealing, flying, p1Anim, aiVars, revealPc, boundVars,
                 ret>>

\* no dealing animation is still running: they started before, and are not
\* longer than, any animation or timeout that waits for this
DealSettled == flying = <<>> /\ pileFlying = <<>>

(***************************************************************************)
(* GameController: player 1 draws                                          *)
(***************************************************************************)
\* the guard at the top of drawCardForPlayer1 and drawCardFromDiscardPile
DrawRejected == player1HasDrawn \/ currentPlayerIndex # 0 \/ isAnimating

\* a pointerdown reaches a button's handler only if the button is interactive
Delivered(b) == b \in shown /\ b \in interactive

\* Draw Card button -> GameController.drawCardForPlayer1, up to the start of
\* the animation
ClickDrawCard ==
  /\ "drawCardAction" \in shown
  /\ IF Delivered("drawCardAction") /\ ~DrawRejected /\ deckChildren > 0
       THEN /\ isAnimating' = TRUE
            /\ interactive' = {}
            /\ hand' = [hand EXCEPT ![0] = Append(@, Top(cards))]
            /\ cards' = Pop(cards)
            /\ deckChildren' = deckChildren - 1
            \* an undefined card makes the texture path throw: no animation
            /\ p1Anim' = IF Top(cards) = Undefined THEN NoAnim
                         ELSE [kind |-> "drawDeck", card |-> Top(cards), tickers |-> 1]
            /\ lastRequest' = Request("draw", TRUE)
       ELSE /\ lastRequest' = Request("draw", FALSE)
            /\ UNCHANGED <<isAnimating, interactive, hand, deckVars, p1Anim>>
  /\ UNCHANGED <<pileVars, sprites, visible, currentPlayerIndex, flagVars,
                 knockedPlayer, isDealingCards, shown, pointVars, dealing, flying,
                 pileFlying, aiVars, revealPc, boundVars, ret>>

\* drawCardFromDiscardPile with discardPile.shift() in place of pop()
ClickDrawFromPile_Shift ==
  /\ "drawFromPile" \in shown
  /\ IF Delivered("drawFromPile") /\ ~DrawRejected /\ pileChildren > 0
       THEN /\ isAnimating' = TRUE
            /\ interactive' = {}
            /\ pileChildren' = pileChildren - 1
            /\ discardPile' = Tail(discardPile)
            /\ hand' = [hand EXCEPT ![0] = Append(@, Head(discardPile))]
            /\ p1Anim' = [kind |-> "drawPile", card |-> Head(discardPile), tickers |-> 1]
            /\ lastRequest' = Request("drawPile", TRUE)
       ELSE /\ lastRequest' = Request("drawPile", FALSE)
            /\ UNCHANGED <<isAnimating, interactive, hand, pileVars, p1Anim>>
  /\ UNCHANGED <<deckVars, sprites, visible, currentPlayerIndex, flagVars,
                 knockedPlayer, isDealingCards, shown, pointVars, dealing, flying,
                 pileFlying, aiVars, revealPc, boundVars, ret>>

\* drawCardFromDiscardPile without "if (this.discardPile.children.length > 0)"
ClickDrawFromPile_NoEmptyTest ==
  /\ "drawFromPile" \in shown
  /\ IF Delivered("drawFromPile") /\ ~DrawRejected
       THEN /\ isAnimating' = TRUE
            /\ interactive' = {}
            /\ pileChildren' = pileChildren - 1
            /\ discardPile' = Pop(discardPile)
            /\ hand' = [hand EXCEPT ![0] = Append(@, Top(discardPile))]
            /\ p1Anim' = [kind |-> "drawPile", card |-> Top(discardPile), tickers |-> 1]
            /\ lastRequest' = Request("drawPile", TRUE)
       ELSE /\ lastRequest' = Request("drawPile", FALSE)
            /\ UNCHANGED <<isAnimating, interactive, hand, pileVars, p1Anim>>
  /\ UNCHANGED <<deckVars, sprites, visible, currentPlayerIndex, flagVars,
                 knockedPlayer, isDealingCards, shown, pointVars, dealing, flying,
                 pileFlying, aiVars, revealPc, boundVars, ret>>

\* Draw from Pile button -> GameController.drawCardFromDiscardPile, up to
\* the start of the animation
ClickDrawFromPile ==
  /\ "drawFromPile" \in shown
  /\ IF Delivered("drawFromPile") /\ ~DrawRejected /\ pileChildren > 0
       THEN /\ isAnimating' = TRUE
            /\ interactive' = {}
            /\ pileChildren' = pileChildren - 1
            /\ discardPile' = Pop(discardPile)
            /\ hand' = [hand EXCEPT ![0] = Append(@, Top(discardPile))]
            /\ p1Anim' = [kind |-> "drawPile", card |-> Top(discardPile), tickers |-> 1]
            /\ lastRequest' = Request("drawPile", TRUE)
       ELSE /\ lastRequest' = Request("drawPile", FALSE)
            /\ UNCHANGED <<isAnimating, interactive, hand, pileVars, p1Anim>>
  /\ UNCHANGED <<deckVars, sprites, visible, currentPlayerIndex, flagVars,
                 knockedPlayer, isDealingCards, shown, pointVars, dealing, flying,
                 pileFlying, aiVars, revealPc, boundVars, ret>>

\* the end of a draw animation that leaves player1HasDrawn as it is
DrawLand_FlagNotSet ==
  /\ p1Anim.kind \in {"drawDeck", "drawPile"}
  /\ DealSettled
  /\ sprites' = [sprites EXCEPT ![0] = Append(@, p1Anim.card)]
  /\ player1HasDrawn' = player1HasDrawn
  /\ player1HasDiscarded' = FALSE
  /\ player1points' = updateTotalPoints(player1points, sprites'[0])
  /\ isAnimating' = FALSE
  /\ interactive' = IF isDealingCards THEN interactive
                    ELSE updateButtonStates(interactive, currentPlayerIndex,
                                            player1HasDrawn', Len(sprites'[0]))
  /\ p1Anim' = NoAnim
  /\ lastRequest' = NoRequest
  /\ UNCHANGED <<deckVars, pileVars, hand, visible, currentPlayerIndex,
                 player2HasDrawn, player2HasDiscarded, knockedPlayer,
                 isDealingCards, shown, player2points, winnerText, dealing,
                 flying, pileFlying, aiVars, revealPc, boundVars, ret>>

\* the end of either draw animation: the sprite joins the hand container,
\* the flags are set, the buttons updated
DrawLand ==
  /\ p1Anim.kind \in {"drawDeck", "drawPile"}
  /\ DealSettled
  /\ sprites' = [sprites EXCEPT ![0] = Append(@, p1Anim.card)]
  /\ player1HasDrawn' = TRUE
  /\ player1HasDiscarded' = FALSE
  /\ player1points' = updateTotalPoints(player1points, sprites'[0])
  /\ isAnimating' = FALSE
  /\ interactive' = IF isDealingCards THEN interactive
                    ELSE updateButtonStates(interactive, currentPlayerIndex,
                                            player1HasDrawn', Len(sprites'[0]))
  /\ p1Anim' = NoAnim
  /\ lastRequest' = NoRequest
  /\ UNCHANGED <<deckVars, pileVars, hand, visible, currentPlayerIndex,
                 player2HasDrawn, player2HasDiscarded, knockedPlayer,
                 isDealingCards, shown, player2points, winnerText, dealing,
                 flying, pileFlying, aiVars, revealPc, boundVars, ret>>

(***************************************************************************)
(* GameController: player 1 discards                                       *)
(***************************************************************************)
\* the guard without its first test
DiscardRejected_NoDrawTest ==
  \/ player1HasDiscarded
  \/ currentPlayerIndex # 0
  \/ isAnimating

\* the guard without its last two tests
DiscardRejected_NoTurnTest ==
  \/ ~player1HasDrawn
  \/ player1HasDiscarded

\* the guard at the top of GameController.discardCard
DiscardRejected ==
  \/ ~player1HasDrawn
  \/ player1HasDiscarded
  \/ currentPlayerIndex # 0
  \/ isAnimating

\* the guard with every call passing whatever isAnimating is
DiscardRejectedWhile_NoAnimatingTest(animating) ==
  \/ ~player1HasDrawn
  \/ player1HasDiscarded
  \/ currentPlayerIndex # 0

\* the guard as a call finds it when the calls before it, in the same event
\* dispatch, have left gameInstance.isAnimating = animating
DiscardRejectedWhile(animating) ==
  \/ ~player1HasDrawn
  \/ player1HasDiscarded
  \/ currentPlayerIndex # 0
  \/ animating

\* the number of calls that pass the guard among the n calls of
\* gameController.discardCard that the n listeners make one after the
\* other; a call that passes sets isAnimating before it returns its promise
RECURSIVE discardCardCalls(_, _)
discardCardCalls(n, animating) ==
  IF n = 0 THEN 0
  ELSE IF DiscardRejectedWhile(animating) THEN discardCardCalls(n - 1, animating)
  ELSE 1 + discardCardCalls(n - 1, TRUE)

\* right click on the k-th sprite of player 1's hand: every "discardCard"
\* listener calls gameController.discardCard(sprite) and then
\* updateTotalPoints; a call that passes the guard sets isAnimating, removes
\* the sprite from the hand if it is still there and starts a Ticker
DiscardGesture(k) ==
  /\ k \in 1..Len(sprites[0])
  /\ listeners >= 1
  /\ IF ~DiscardRejected
       THEN /\ isAnimating' = TRUE
            /\ interactive' = {}
            /\ sprites' = [sprites EXCEPT ![0] = RemoveAt(@, k - 1)]
            /\ p1Anim' = [kind |-> "discard", card |-> sprites[0][k],
                          tickers |-> discardCardCalls(listeners, isAnimating)]
            /\ lastRequest' = Request("discard", TRUE)
       ELSE /\ lastRequest' = Request("discard", FALSE)
            /\ UNCHANGED <<isAnimating, interactive, sprites, p1Anim>>
  /\ player1points' = updateTotalPoints(player1points, sprites'[0])
  /\ UNCHANGED <<deckVars, pileVars, hand, visible, currentPlayerIndex, flagVars,
                 knockedPlayer, isDealingCards, shown, player2points, winnerText,
                 dealing, flying, pileFlying, aiVars, revealPc, boundVars, ret>>

\* the last frame of a discard animation that also clears player1HasDrawn
DiscardLand_ResetsDrawn ==
  /\ p1Anim.kind = "discard"
  /\ pileChildren' = pileChildren + 1
  /\ discardPile' = discardPile \o [i \in 1..p1Anim.tickers |-> p1Anim.card]
  /\ player1HasDiscarded' = TRUE
  /\ player1HasDrawn' = FALSE
  /\ player1points' = updateTotalPoints(player1points, sprites[0])
  /\ isAnimating' = FALSE
  /\ interactive' = IF isDealingCards THEN interactive
                    ELSE updateButtonStates(interactive, currentPlayerIndex,
                                            player1HasDrawn', Len(sprites[0]))
  /\ p1Anim' = NoAnim
  /\ lastRequest' = NoRequest
  /\ UNCHANGED <<deckVars, hand, sprites, visible, currentPlayerIndex,
                 player2HasDrawn, player2HasDiscarded,
                 knockedPlayer, isDealingCards, shown, player2points, winnerText,
                 dealing, flying, pileFlying, aiVars, revealPc, boundVars, ret>>

\* the last frame of the discard animation: every Ticker started for the
\* card adds the sprite to the pile container, where it is one child, and
\* pushes the card onto gameState.discardPile
DiscardLand ==
  /\ p1Anim.kind = "discard"
  /\ pileChildren' = pileChildren + 1
  /\ discardPile' = discardPile \o [i \in 1..p1Anim.tickers |-> p1Anim.card]
  /\ player1HasDiscarded' = TRUE
  /\ player1points' = updateTotalPoints(player1points, sprites[0])
  /\ isAnimating' = FALSE
  /\ interactive' = IF isDealingCards THEN interactive
                    ELSE updateButtonStates(interactive, currentPlayerIndex,
                                            player1HasDrawn, Len(sprites[0]))
  /\ p1Anim' = NoAnim
  /\ lastRequest' = NoRequest
  /\ UNCHANGED <<deckVars, hand, sprites, visible, currentPlayerIndex,
                 player1HasDrawn, player2HasDrawn, player2HasDiscarded,
                 knockedPlayer, isDealingCards, shown, player2points, winnerText,
                 dealing, flying, pileFlying, aiVars, revealPc, boundVars, ret>>

(***************************************************************************)
(* Game: End Turn, Knock, Restart Game                                     *)
(***************************************************************************)
\* the condition of the End Turn handler
EndTurnAllowed == currentPlayerIndex = 0 /\ ~isDealingCards /\ ~isAnimating

\* the End Turn handler without "this.gameState.currentPlayerIndex = 1"
ClickEndTurn_NoSwitch ==
  /\ "endTurn" \in shown
  /\ (Delivered("endTurn") /\ EndTurnAllowed) => turns < MaxTurns
  /\ IF Delivered("endTurn") /\ EndTurnAllowed
       THEN /\ interactive' = {}
            /\ isAnimating' = TRUE
            /\ currentPlayerIndex' = currentPlayerIndex
            /\ player1HasDrawn' = FALSE
            /\ player1HasDiscarded' = FALSE
            /\ aiPc' = "timer"
            /\ turns' = turns + 1
            /\ lastRequest' = Request("endTurn", TRUE)
       ELSE /\ lastRequest' = Request("endTurn", FALSE)
            /\ UNCHANGED <<interactive, isAnimating, currentPlayerIndex,
                           player1HasDrawn, player1HasDiscarded, aiPc, turns>>
  /\ UNCHANGED <<deckVars, pileVars, hand, sprites, visible, player2HasDrawn,
                 player2HasDiscarded, knockedPlayer, isDealingCards, shown,
                 pointVars, dealing, flying, pileFlying, p1Anim, aiCard, aiIdx,
                 isProcessingTurn, revealPc, listeners, restarts, ret>>

\* End Turn button handler; the timeout that starts player 2 is left pending
ClickEndTurn ==
  /\ "endTurn" \in shown
  /\ (Delivered("endTurn") /\ EndTurnAllowed) => turns < MaxTurns
  /\ IF Delivered("endTurn") /\ EndTurnAllowed
       THEN /\ interactive' = {}
            /\ isAnimating' = TRUE
            /\ currentPlayerIndex' = 1
            /\ player1HasDrawn' = FALSE
            /\ player1HasDiscarded' = FALSE
            /\ aiPc' = "timer"
            /\ turns' = turns + 1
            /\ lastRequest' = Request("endTurn", TRUE)
       ELSE /\ lastRequest' = Request("endTurn", FALSE)
            /\ UNCHANGED <<interactive, isAnimating, currentPlayerIndex,
                           player1HasDrawn, player1HasDiscarded, aiPc, turns>>
  /\ UNCHANGED <<deckVars, pileVars, hand, sprites, visible, player2HasDrawn,
                 player2HasDiscarded, knockedPlayer, isDealingCards, shown,
                 pointVars, dealing, flying, pileFlying, p1Anim, aiCard, aiIdx,
                 isProcessingTurn, revealPc, listeners, restarts, ret>>

\* the condition of the Knock handler (the handler itself reads the
\* button's interactive flag)
KnockAllowed == "knock" \in interactive /\ ~isDealingCards /\ ~isAnimating

\* Knock button handler up to "await this.revealPlayer2Cards()"
ClickKnock ==
  /\ "knock" \in shown
  /\ IF Delivered("knock") /\ KnockAllowed
       THEN /\ interactive' = {}
            /\ isAnimating' = TRUE
            /\ knockedPlayer' = 0
            /\ revealPc' = "p1"
            /\ lastRequest' = Request("knock", TRUE)
       ELSE /\ lastRequest' = Request("knock", FALSE)
            /\ UNCHANGED <<interactive, isAnimating, knockedPlayer, revealPc>>
  /\ UNCHANGED <<deckVars, pileVars, hand, sprites, visible, currentPlayerIndex,
                 flagVars, isDealingCards, shown, pointVars, dealing, flying,
                 pileFlying, p1Anim, aiVars, boundVars, ret>>

\* Knock button handler after the reveal: player 2's total, the winner, the
\* restart button.  The reveal flips at least two sprites of 40 frames each,
\* one after the other, so the dealing animations have ended.
KnockFinish ==
  /\ revealPc = "p1"
  /\ DealSettled
  /\ player2points' = updateTotalPoints(player2points, sprites[1])
  /\ winnerText' = determineWinner(player1points, player2points')
  /\ shown' = shown \cup {"restartGame"}
  /\ interactive' = interactive \cup {"restartGame"}
  /\ isAnimating' = FALSE
  /\ revealPc' = "none"
  /\ lastRequest' = NoRequest
  /\ UNCHANGED <<deckVars, pileVars, hand, sprites, visible, currentPlayerIndex,
                 flagVars, knockedPlayer, isDealingCards, player1points, dealing,
                 flying, pileFlying, p1Anim, aiVars, boundVars, ret>>

\* a restart that goes on with the deck of the round before
RestartDeck_Reused(seed) == cards

\* "this.deck = new Deck(suits, ranks)" of Game.restartGame
RestartDeck(seed) == NewDeck(suits, ranks, seed)

\* Restart Game button -> Game.restartGame: new GameState, Deck, containers'
\* children removed, new PointsCalculator and GameController (with a new
\* Player2Controller), one more window listener.  Continuations of the old
\* controller only touch the objects that were replaced.
RestartGame ==
  /\ Delivered("restartGame")
  /\ restarts < MaxRestarts
  /\ \E seed \in 0..(NumSeeds - 1) :
       /\ cards' = RestartDeck(seed)
       /\ deckChildren' = Len(RestartDeck(seed)) + 1
  /\ discardPile' = <<>>
  /\ pileChildren' = 0
  /\ hand' = [p \in {0, 1} |-> <<>>]
  /\ sprites' = [p \in {0, 1} |-> <<>>]
  /\ visible' = {}
  /\ currentPlayerIndex' = 0
  /\ player1HasDrawn' = FALSE
  /\ player1HasDiscarded' = FALSE
  /\ player2HasDrawn' = FALSE
  /\ player2HasDiscarded' = FALSE
  /\ knockedPlayer' = -1
  /\ isDealingCards' = FALSE
  /\ isAnimating' = FALSE
  /\ isProcessingTurn' = FALSE
  /\ player1points' = 0
  /\ player2points' = 0
  /\ winnerText' = ""
  /\ dealing' = [running |-> FALSE, cardCount |-> 0]
  /\ flying' = <<>>
  /\ pileFlying' = <<>>
  /\ p1Anim' = NoAnim
  /\ aiPc' = "idle"
  /\ aiCard' = Undefined
  /\ aiIdx' = -1
  /\ revealPc' = "none"
  /\ shown' = {"startGame"}
  /\ interactive' = interactive \cup {"startGame"}
  /\ listeners' = listeners + 1
  /\ restarts' = restarts + 1
  /\ lastRequest' = Request("restart", TRUE)
  /\ UNCHANGED <<turns, ret>>

(***************************************************************************)
(* Player2Controller                                                       *)
(***************************************************************************)
\* Player2Controller.knockAction up to its 500 ms wait, with the
\* synchronous start of the knock callback registered by initEventListeners
KnockByPlayer2 ==
  /\ knockedPlayer' = 1
  /\ interactive' = interactive \ PlayButtons
  /\ player1points' = updateTotalPoints(player1points, sprites[0])
  /\ player2points' = updateTotalPoints(player2points, sprites[1])
  /\ revealPc' = "p2"
  /\ aiPc' = "knockWait"

\* Player2Controller.drawCard up to the animation of the chosen draw
DrawByPlayer2 ==
  LET hasTop == Len(discardPile) > 0
      topDiscardCard == Top(discardPile)
      drawFromDiscard == shouldDrawFromDiscardPile(hasTop, topDiscardCard, hand[1])
  IN IF drawFromDiscard /\ pileChildren > 0
       THEN \* drawFromDiscardPile
            /\ pileChildren' = pileChildren - 1
            /\ discardPile' = Pop(discardPile)
            /\ hand' = [hand EXCEPT ![1] = Append(@, topDiscardCard)]
            /\ aiCard' = topDiscardCard
            /\ aiPc' = "drawAnim"
            /\ UNCHANGED deckVars
     ELSE IF deckChildren <= 0
       THEN \* drawFromDeck returns at once
            /\ aiPc' = "drawn"
            /\ UNCHANGED <<deckVars, pileVars, hand, aiCard>>
     ELSE \* drawFromDeck
            /\ cards' = Pop(cards)
            /\ deckChildren' = deckChildren - 1
            /\ hand' = [hand EXCEPT ![1] = Append(@, Top(cards))]
            /\ aiCard' = Top(cards)
            /\ aiPc' = "drawAnim"
            /\ UNCHANGED pileVars

\* a performTurn that never returns at its first line
AlreadyProcessing_Never == FALSE

\* "if (this.isProcessingTurn) return;"
AlreadyProcessing == isProcessingTurn

\* performTurn without the knock decision at its start
performTurn_NoKnockCheck ==
  /\ IF AlreadyProcessing
       THEN /\ aiPc' = IF aiPc = "timer" THEN "idle" ELSE aiPc
            /\ UNCHANGED <<deckVars, pileVars, hand, knockedPlayer, interactive,
                           pointVars, aiCard, isProcessingTurn, revealPc>>
     ELSE IF HasUndefined(hand[0]) \/ HasUndefined(hand[1])
       THEN /\ aiPc' = "dead"
            /\ isProcessingTurn' = TRUE
            /\ UNCHANGED <<deckVars, pileVars, hand, knockedPlayer, interactive,
                           pointVars, aiCard, revealPc>>
     ELSE /\ isProcessingTurn' = TRUE
          /\ DrawByPlayer2
          /\ player2points' = IF Len(hand[1]) = 3
                                THEN updateTotalPoints(player2points, sprites[1])
                                ELSE player2points
          /\ UNCHANGED <<knockedPlayer, interactive, player1points, winnerText,
                         revealPc>>
  /\ UNCHANGED <<sprites, visible, currentPlayerIndex, flagVars, isDealingCards,
                 shown, dealing, flying, pileFlying, p1Anim, aiIdx, boundVars, ret>>

\* Player2Controller.performTurn up to its first animation or wait; a call
\* that returns at the first line leaves a sequence in progress where it is
performTurn ==
  /\ IF AlreadyProcessing
       THEN /\ aiPc' = IF aiPc = "timer" THEN "idle" ELSE aiPc
            /\ UNCHANGED <<deckVars, pileVars, hand, knockedPlayer, interactive,
                           pointVars, aiCard, isProcessingTurn, revealPc>>
     ELSE IF HasUndefined(hand[0]) \/ HasUndefined(hand[1])
       THEN \* a TypeError ends performTurn with isProcessingTurn still true
            /\ aiPc' = "dead"
            /\ isProcessingTurn' = TRUE
            /\ UNCHANGED <<deckVars, pileVars, hand, knockedPlayer, interactive,
                           pointVars, aiCard, revealPc>>
     ELSE IF Len(hand[1]) = 3
             /\ shouldKnock(hand[1], hand[0], visible, Len(discardPile))
       THEN /\ isProcessingTurn' = TRUE
            /\ KnockByPlayer2
            /\ UNCHANGED <<deckVars, pileVars, hand, winnerText, aiCard>>
     ELSE /\ isProcessingTurn' = TRUE
          /\ DrawByPlayer2
          /\ player2points' = IF Len(hand[1]) = 3
                                THEN updateTotalPoints(player2points, sprites[1])
                                ELSE player2points
          /\ UNCHANGED <<knockedPlayer, interactive, player1points, winnerText,
                         revealPc>>
  /\ UNCHANGED <<sprites, visible, currentPlayerIndex, flagVars, isDealingCards,
                 shown, dealing, flying, pileFlying, p1Anim, aiIdx, boundVars, ret>>

\* the timeout set by the End Turn handler fires: isAnimating is cleared and
\* performTurn is called
PerformTurn ==
  /\ aiPc = "timer"
  /\ DealSettled
  /\ isAnimating' = FALSE
  /\ lastRequest' = NoRequest
  /\ performTurn

\* the end of player 2's draw animation, and the rest of drawCard; a child
\* whose card is undefined makes updatePlayer2TotalPoints throw a TypeError
\* that ends drawCard and performTurn with isProcessingTurn still true
Player2DrawLand ==
  /\ aiPc \in {"drawAnim", "drawn"}
  /\ sprites' = IF aiPc = "drawAnim"
                  THEN [sprites EXCEPT ![1] = Append(@, aiCard)]
                ELSE sprites
  /\ player2HasDrawn' = TRUE
  /\ player2HasDiscarded' = FALSE
  /\ player2points' = IF HasUndefined(sprites'[1]) THEN player2points
                      ELSE updateTotalPoints(player2points, sprites'[1])
  /\ aiPc' = IF HasUndefined(sprites'[1]) THEN "dead" ELSE "think"
  /\ lastRequest' = NoRequest
  /\ UNCHANGED <<deckVars, pileVars, hand, visible, currentPlayerIndex,
                 player1HasDrawn, player1HasDiscarded, knockedPlayer,
                 isDealingCards, isAnimating, isProcessingTurn, interactive,
                 shown, player1points, winnerText, dealing, flying, pileFlying,
                 p1Anim, aiCard, aiIdx, revealPc, boundVars, ret>>

\* the tail of performTurn without "this.isProcessingTurn = false"
TurnBackToPlayer1_StillProcessing ==
  /\ player2HasDrawn' = FALSE
  /\ player2HasDiscarded' = TRUE
  /\ currentPlayerIndex' = 0
  /\ isProcessingTurn' = isProcessingTurn
  /\ interactive' =
       updateEndTurnButtonState(
         updateKnockButtonState(
           (interactive \cup {"drawCardAction", "drawFromPile"}) \ {"knock", "endTurn"},
           0, Len(sprites[0])),
         0, Len(sprites[0]))
  /\ aiPc' = "idle"

\* the tail of performTurn after discardCard has returned
TurnBackToPlayer1 ==
  /\ player2HasDrawn' = FALSE
  /\ player2HasDiscarded' = TRUE
  /\ currentPlayerIndex' = 0
  /\ isProcessingTurn' = FALSE
  /\ interactive' =
       updateEndTurnButtonState(
         updateKnockButtonState(
           (interactive \cup {"drawCardAction", "drawFromPile"}) \ {"knock", "endTurn"},
           0, Len(sprites[0])),
         0, Len(sprites[0]))
  /\ aiPc' = "idle"

\* after the 1000 ms pause: the second knock decision, then
\* Player2Controller.discardCard up to its animation
Player2Decide ==
  /\ aiPc = "think"
  /\ lastRequest' = NoRequest
  /\ IF HasUndefined(hand[0]) \/ HasUndefined(hand[1])
       THEN /\ aiPc' = "dead"
            /\ UNCHANGED <<knockedPlayer, interactive, pointVars, revealPc,
                           sprites, aiCard, aiIdx, isProcessingTurn,
                           currentPlayerIndex, player2HasDrawn,
                           player2HasDiscarded>>
     ELSE IF shouldKnock(hand[1], hand[0], visible, Len(discardPile))
       THEN /\ KnockByPlayer2
            /\ UNCHANGED <<winnerText, sprites, aiCard, aiIdx, isProcessingTurn,
                           currentPlayerIndex, player2HasDrawn,
                           player2HasDiscarded>>
     ELSE \E cardIndexToDiscard \in {selectCardToDiscard(hand[1])} :
       /\ player2points' = updateTotalPoints(player2points, sprites[1])
       /\ IF Len(sprites[1]) <= 0 \/ cardIndexToDiscard = -1
            THEN /\ TurnBackToPlayer1
                 /\ UNCHANGED <<knockedPlayer, player1points, winnerText, revealPc,
                                sprites, aiCard, aiIdx>>
          ELSE IF cardIndexToDiscard >= Len(sprites[1])
            THEN \* children[cardIndexToDiscard] is undefined: TypeError
                 /\ aiPc' = "dead"
                 /\ UNCHANGED <<knockedPlayer, interactive, player1points,
                                winnerText, revealPc, sprites, aiCard, aiIdx,
                                isProcessingTurn, currentPlayerIndex,
                                player2HasDrawn, player2HasDiscarded>>
          ELSE /\ aiIdx' = cardIndexToDiscard
               /\ aiCard' = sprites[1][cardIndexToDiscard + 1]
               /\ sprites' = [sprites EXCEPT ![1] = RemoveAt(@, cardIndexToDiscard)]
               /\ aiPc' = "discardAnim"
               /\ UNCHANGED <<knockedPlayer, interactive, player1points,
                              winnerText, revealPc, isProcessingTurn,
                              currentPlayerIndex, player2HasDrawn,
                              player2HasDiscarded>>
  /\ UNCHANGED <<deckVars, pileVars, hand, visible, player1HasDrawn,
                 player1HasDiscarded, isDealingCards, isAnimating, shown, dealing,
                 flying, pileFlying, p1Anim, boundVars, ret>>

\* the last frame of player 2's discard animation, then the tail of
\* performTurn
Player2DiscardLand ==
  /\ aiPc = "discardAnim"
  /\ pileChildren' = pileChildren + 1
  /\ hand' = [hand EXCEPT ![1] = RemoveAt(@, aiIdx)]
  /\ discardPile' = Append(discardPile, aiCard)
  /\ TurnBackToPlayer1
  /\ lastRequest' = NoRequest
  /\ UNCHANGED <<deckVars, sprites, visible, player1HasDrawn, player1HasDiscarded,
                 knockedPlayer, isDealingCards, isAnimating, shown, pointVars,
                 dealing, flying, pileFlying, p1Anim, aiCard, aiIdx, revealPc,
                 boundVars, ret>>

\* performTurn without the return after knockAction: it goes on to its tail
Player2KnockDone_NoReturn ==
  /\ aiPc = "knockWait"
  /\ TurnBackToPlayer1
  /\ lastRequest' = NoRequest
  /\ UNCHANGED <<deckVars, pileVars, hand, sprites, visible, player1HasDrawn,
                 player1HasDiscarded, knockedPlayer, isDealingCards, isAnimating,
                 shown, pointVars, dealing, flying, pileFlying, p1Anim, aiCard,
                 aiIdx, revealPc, boundVars, ret>>

\* the 500 ms wait of knockAction ends and performTurn returns
Player2KnockDone ==
  /\ aiPc = "knockWait"
  /\ isProcessingTurn' = FALSE
  /\ aiPc' = "idle"
  /\ lastRequest' = NoRequest
  /\ UNCHANGED <<deckVars, pileVars, hand, sprites, visible, currentPlayerIndex,
                 flagVars, knockedPlayer, isDealingCards, isAnimating, interactive,
                 shown, pointVars, dealing, flying, pileFlying, p1Anim, aiCard,
                 aiIdx, revealPc, boundVars, ret>>

\* the knock callback of initEventListeners after its reveal
KnockCallbackFinish ==
  /\ revealPc = "p2"
  /\ player1points' = updateTotalPoints(player1points, sprites[0])
  /\ player2points' = updateTotalPoints(player2points, sprites[1])
  /\ winnerText' = determineWinner(player1points', player2points')
  /\ interactive' = (interactive \ {"drawCardAction", "drawFromPile", "knock"})
                      \cup {"restartGame"}
  /\ shown' = shown \cup {"restartGame"}
  /\ revealPc' = "none"
  /\ lastRequest' = NoRequest
  /\ UNCHANGED <<deckVars, pileVars, hand, sprites, visible, currentPlayerIndex,
                 flagVars, knockedPlayer, isDealingCards, isAnimating, dealing,
                 flying, pileFlying, p1Anim, aiVars, boundVars, ret>>

(***************************************************************************)
(* The game                                                                *)
(***************************************************************************)
Next ==
  \/ StartGame
  \/ DealCard
  \/ DealLand
  \/ DealFinish
  \/ PileLand
  \/ ClickDrawCard
  \/ ClickDrawFromPile
  \/ DrawLand
  \/ \E k \in 1..4 : DiscardGesture(k)
  \/ DiscardLand
  \/ ClickEndTurn
  \/ ClickKnock
  \/ KnockFinish
  \/ RestartGame
  \/ PerformTurn
  \/ Player2DrawLand
  \/ Player2Decide
  \/ Player2DiscardLand
  \/ Player2KnockDone
  \/ KnockCallbackFinish

Spec == Init /\ [][Next]_vars

\* a step taken by a timeout, an interval or a ticker callback, not by a
\* click of player 1
TimersAndTickers ==
  \/ DealCard \/ DealFinish \/ DealLand \/ PileLand
  \/ DrawLand \/ DiscardLand
  \/ KnockFinish \/ KnockCallbackFinish
  \/ PerformTurn
  \/ Player2DrawLand
  \/ Player2Decide
  \/ Player2DiscardLand
  \/ Player2KnockDone

\* The game with its timers and animations running: while a timeout is
\* pending or a ticker has a callback, one of them eventually runs.  The
\* clicks of player 1 are under no obligation.
SpecFair == Spec /\ WF_vars(TimersAndTickers)

(***************************************************************************)
(* The game, with performTurn also called while a turn sequence of         *)
(* player 2 is in progress                                                 *)
(***************************************************************************)
PerformTurnAgain ==
  /\ isProcessingTurn
  /\ aiPc # "timer"
  /\ lastRequest' = Request("performTurn", ~AlreadyProcessing)
  /\ performTurn
  /\ UNCHANGED isAnimating

NextReentry ==
  \/ Next
  \/ PerformTurnAgain

SpecReentry == Init /\ [][NextReentry]_vars

(***************************************************************************)
(* The Deck on its own: new Deck(suits, ranks) for a prefix of the suits   *)
(* and a prefix of the ranks, then calls of drawCard                       *)
(***************************************************************************)
InitDeck ==
  /\ \E seed \in 0..(NumSeeds - 1),
        ns \in 1..(IF MaxDeckSuits < Len(suits) THEN MaxDeckSuits ELSE Len(suits)),
        nr \in 1..(IF MaxDeckRanks < Len(ranks) THEN MaxDeckRanks ELSE Len(ranks)) :
       FreshRound(NewDeck(SubSeq(suits, 1, ns), SubSeq(ranks, 1, nr), seed), NoHands)
  /\ FreshSession

\* Deck.drawCard: const card = this.cards.pop(); return card
DeckDrawCard ==
  /\ ret' = Top(cards)
  /\ cards' = Pop(cards)
  /\ lastRequest' = Request("Deck.drawCard", TRUE)
  /\ UNCHANGED <<deckChildren, pileVars, hand, sprites, visible,
                 currentPlayerIndex, flagVars, knockedPlayer, isDealingCards,
                 isAnimating, interactive, shown, pointVars, dealing, flying,
                 pileFlying, p1Anim, aiVars, revealPc, boundVars>>

\* Deck.shuffle called once more on a deck nothing has been drawn from
DeckShuffle ==
  /\ lastRequest = NoRequest
  /\ \E seed \in 0..(NumSeeds - 1) : cards' = shuffle(cards, seed)
  /\ lastRequest' = Request("Deck.shuffle", TRUE)
  /\ UNCHANGED <<deckChildren, pileVars, hand, sprites, visible,
                 currentPlayerIndex, flagVars, knockedPlayer, isDealingCards,
                 isAnimating, interactive, shown, pointVars, dealing, flying,
                 pileFlying, p1Anim, aiVars, revealPc, boundVars, ret>>

NextDeck ==
  \/ DeckDrawCard
  \/ DeckShuffle

SpecDeck == InitDeck /\ [][NextDeck]_vars

(***************************************************************************)
(* AIPlayer.calculatePointsBySuit on its own, applied to hands of up to    *)
(* MaxHandLen distinct cards                                               *)
(***************************************************************************)
ScoreCards ==
  {Card(s, r) : s \in {"diamonds", "flowers"},
                r \in {"A", "2", "7", "9", "10", "J", "Q", "K"}}

ScoreHands ==
  UNION {{h \in [1..n -> ScoreCards] : \A i, j \in 1..n : h[i] = h[j] => i = j} :
           n \in 0..MaxHandLen}

InitScoring ==
  /\ \E h \in ScoreHands : FreshRound(<<>>, [p \in {0, 1} |-> IF p = 1 THEN h ELSE <<>>])
  /\ FreshSession

\* calculatePointsBySuit(hand) and Math.max(...Object.values(..)) of its
\* result
ScoreHand ==
  /\ ret' = [points |-> calculatePointsBySuit(hand[1]), best |-> MaxPoints(hand[1])]
  /\ lastRequest' = Request("calculatePointsBySuit", TRUE)
  /\ UNCHANGED <<deckVars, pileVars, hand, sprites, visible, currentPlayerIndex,
                 flagVars, knockedPlayer, isDealingCards, isAnimating, interactive,
                 shown, pointVars, dealing, flying, pileFlying, p1Anim, aiVars,
                 revealPc, boundVars>>

NextScoring == ScoreHand

SpecScoring == InitScoring /\ [][NextScoring]_vars

(***************************************************************************)
(* AIPlayer's decisions on their own: shouldKnock and selectCardToDiscard  *)
(* applied to hands of up to MaxAIHandLen distinct cards, with an opponent *)
(* of whose cards none, one, two or three are visible, and a discard pile  *)
(* of 0..MaxPileDepth cards                                                *)
(***************************************************************************)
AICards ==
  {Card("spades", "A"), Card("spades", "K"), Card("spades", "Q"),
   Card("spades", "5"), Card("hearts", "2"), Card("hearts", "K")}

AIHands ==
  UNION {{h \in [1..n -> AICards] : \A i, j \in 1..n : h[i] = h[j] => i = j} :
           n \in 0..MaxAIHandLen}

OpponentHand ==
  <<Card("diamonds", "9"), Card("diamonds", "10"), Card("flowers", "7")>>

PileCards ==
  <<Card("flowers", "3"), Card("diamonds", "Q"), Card("spades", "8"),
    Card("hearts", "7"), Card("diamonds", "4"), Card("spades", "9"),
    Card("spades", "J"), Card("flowers", "2")>>

InitAI ==
  /\ \E h \in AIHands, n \in 0..Len(OpponentHand), d \in 0..MaxPileDepth :
       FreshTable(<<>>, [p \in {0, 1} |-> IF p = 1 THEN h ELSE OpponentHand],
                  SubSeq(PileCards, 1, d), {OpponentHand[k] : k \in 1..n})
  /\ FreshControl
  /\ FreshSession

\* aiPlayer.shouldKnock()
AskShouldKnock ==
  /\ ret' = [knock |-> shouldKnock(hand[1], hand[0], visible, Len(discardPile))]
  /\ lastRequest' = Request("shouldKnock", TRUE)
  /\ UNCHANGED <<deckVars, pileVars, hand, sprites, visible, currentPlayerIndex,
                 flagVars, knockedPlayer, isDealingCards, isAnimating, interactive,
                 shown, pointVars, dealing, flying, pileFlying, p1Anim, aiVars,
                 revealPc, boundVars>>

\* selectCardToDiscard sorting the hand it is given by rank value, in place
AskSelectCardToDiscard_SortsHand ==
  /\ ret' = [index |-> selectCardToDiscard(hand[1])]
  /\ lastRequest' = Request("selectCardToDiscard", TRUE)
  /\ hand' = [hand EXCEPT ![1] =
                Apply(LAMBDA order : [k \in 1..Len(order) |-> hand[1][order[k]]],
                      StableSort([k \in 1..Len(hand[1]) |-> rankOrder(hand[1][k].rank)]))]
  /\ UNCHANGED <<deckVars, pileVars, sprites, visible, currentPlayerIndex,
                 flagVars, knockedPlayer, isDealingCards, isAnimating, interactive,
                 shown, pointVars, dealing, flying, pileFlying, p1Anim, aiVars,
                 revealPc, boundVars>>

\* aiPlayer.selectCardToDiscard(handCards)
AskSelectCardToDiscard ==
  /\ ret' = [index |-> selectCardToDiscard(hand[1])]
  /\ lastRequest' = Request("selectCardToDiscard", TRUE)
  /\ UNCHANGED <<deckVars, pileVars, hand, sprites, visible, currentPlayerIndex,
                 flagVars, knockedPlayer, isDealingCards, isAnimating, interactive,
                 shown, pointVars, dealing, flying, pileFlying, p1Anim, aiVars,
                 revealPc, boundVars>>

NextAI ==
  \/ AskShouldKnock
  \/ AskSelectCardToDiscard

SpecAI == InitAI /\ [][NextAI]_vars

(***************************************************************************)
(* Drawing on its own: AIPlayer.shouldDrawFromDiscardPile, player 1's two  *)
(* draw buttons and player 2's turn, on tables at the start of a turn of   *)
(* player 1.  Player 2 holds up to MaxHandLen distinct cards, the discard  *)
(* pile is empty or holds one card, the deck holds two cards; one more     *)
(* table is the end of a game in which the deck has run out.               *)
(***************************************************************************)
DrawCards ==
  {Card("spades", "A"), Card("spades", "K"), Card("spades", "5"),
   Card("hearts", "K"), Card("diamonds", "3")}

DrawHands ==
  UNION {{h \in [1..n -> DrawCards] : \A i, j \in 1..n : h[i] = h[j] => i = j} :
           n \in 0..MaxHandLen}

TopCards ==
  {Card("hearts", "5"), Card("spades", "3"), Card("spades", "8"),
   Card("diamonds", "Q"), Card("diamonds", "8"), Card("flowers", "7"),
   Card("flowers", "4")}

DrawPiles == {<<>>} \cup {<<t>> : t \in TopCards}

DrawDeck == <<Card("hearts", "7"), Card("flowers", "2")>>

\* player 1's three dealt cards, all of them visible
DrawOpponentHand ==
  <<Card("diamonds", "9"), Card("diamonds", "10"), Card("flowers", "9")>>

\* The table 35 turns into the game dealt from the deck
\* 7H 5D AH JS 6H 5H | 6D | 8D 10S 10F 7D 4D QD 10D 7F JD QH AD 9D KD 4S 2S
\* 9F 3S 9S 3F 6S 8S 7S 2H 8H 3H KS KF JH JF 6F 2F AF 8F 10H 5S 2D 3D 5F 4H
\* KH QS AS QF 4F 9H (first card dealt first, F for flowers), in which
\* player 1 has drawn from the deck and discarded the card drawn in every
\* turn: player 2 has just taken the last card of the deck.  gameState.players[0].hand still
\* lists every card player 1 has drawn.
EndgamePile ==
  <<Card("diamonds", "6"), Card("hearts", "5"), Card("diamonds", "5"),
    Card("diamonds", "8"), Card("diamonds", "7"), Card("diamonds", "4"),
    Card("diamonds", "Q"), Card("diamonds", "10"), Card("flowers", "7"),
    Card("diamonds", "J"), Card("hearts", "Q"), Card("flowers", "10"),
    Card("diamonds", "9"), Card("spades", "J"), Card("spades", "4"),
    Card("spades", "2"), Card("flowers", "9"), Card("spades", "3"),
    Card("spades", "9"), Card("flowers", "3"), Card("spades", "6"),
    Card("spades", "8"), Card("spades", "7"), Card("hearts", "2"),
    Card("hearts", "8"), Card("hearts", "3"), Card("spades", "10"),
    Card("flowers", "K"), Card("hearts", "J"), Card("flowers", "J"),
    Card("flowers", "6"), Card("flowers", "2"), Card("spades", "K"),
    Card("flowers", "8"), Card("hearts", "10"), Card("spades", "5"),
    Card("flowers", "A"), Card("diamonds", "2"), Card("flowers", "5"),
    Card("hearts", "4"), Card("hearts", "K"), Card("spades", "Q"),
    Card("spades", "A"), Card("flowers", "Q"), Card("flowers", "4"),
    Card("hearts", "9")>>

EndgamePlayer1Hand ==
  <<Card("hearts", "7"), Card("hearts", "A"), Card("hearts", "6"),
    Card("diamonds", "8"), Card("spades", "10"), Card("flowers", "10"),
    Card("diamonds", "7"), Card("diamonds", "Q"), Card("diamonds", "10"),
    Card("flowers", "7"), Card("diamonds", "J"), Card("hearts", "Q"),
    Card("diamonds", "A"), Card("diamonds", "9"), Card("diamonds", "K"),
    Card("spades", "4"), Card("flowers", "9"), Card("spades", "9"),
    Card("flowers", "3"), Card("spades", "8"), Card("spades", "7"),
    Card("hearts", "2"), Card("hearts", "3"), Card("flowers", "K"),
    Card("hearts", "J"), Card("flowers", "J"), Card("flowers", "6"),
    Card("flowers", "A"), Card("flowers", "8"), Card("hearts", "10"),
    Card("spades", "5"), Card("diamonds", "3"), Card("flowers", "5"),
    Card("hearts", "K"), Card("spades", "Q"), Card("spades", "A"),
    Card("flowers", "Q"), Card("flowers", "4")>>

EndgamePlayer1Sprites ==
  <<Card("hearts", "7"), Card("hearts", "A"), Card("hearts", "6")>>

EndgamePlayer2Hand ==
  <<Card("diamonds", "A"), Card("diamonds", "K"), Card("diamonds", "3")>>

\* the controls at the start of a turn of player 1 who holds three sprites:
\* as DealFinish, or the tail of performTurn, leaves them
TurnOfPlayer1(sprs, afterPlayer2) ==
  /\ sprites = sprs
  /\ currentPlayerIndex = 0
  /\ player1HasDrawn = FALSE
  /\ player1HasDiscarded = FALSE
  /\ player2HasDrawn = FALSE
  /\ player2HasDiscarded = afterPlayer2
  /\ knockedPlayer = -1
  /\ isDealingCards = FALSE
  /\ isAnimating = FALSE
  /\ isProcessingTurn = FALSE
  /\ player1points = updateTotalPoints(0, sprs[0])
  /\ player2points = updateTotalPoints(0, sprs[1])
  /\ winnerText = ""
  /\ dealing = [running |-> FALSE, cardCount |-> 6]
  /\ flying = <<>>
  /\ pileFlying = <<>>
  /\ p1Anim = NoAnim
  /\ aiPc = "idle"
  /\ aiCard = Undefined
  /\ aiIdx = -1
  /\ revealPc = "none"
  /\ interactive = PlayButtons
  /\ shown = PlayButtons
  /\ listeners = 1
  \* turns counts the End Turn clicks from this table on
  /\ turns = 0
  /\ restarts = 0
  /\ lastRequest = NoRequest
  /\ ret = NoReturn

InitDraw ==
  \/ \E h \in DrawHands, pile \in DrawPiles :
       LET hands == [p \in {0, 1} |-> IF p = 1 THEN h ELSE DrawOpponentHand]
       IN /\ FreshTable(DrawDeck, hands, pile,
                        {DrawOpponentHand[k] : k \in 1..Len(DrawOpponentHand)})
          /\ TurnOfPlayer1(hands, FALSE)
  \/ /\ FreshTable(<<>>,
                   [p \in {0, 1} |-> IF p = 1 THEN EndgamePlayer2Hand
                                     ELSE EndgamePlayer1Hand],
                   EndgamePile,
                   {EndgamePlayer1Sprites[k] : k \in 1..Len(EndgamePlayer1Sprites)})
     /\ TurnOfPlayer1([p \in {0, 1} |-> IF p = 1 THEN EndgamePlayer2Hand
                                        ELSE EndgamePlayer1Sprites], TRUE)

\* aiPlayer.shouldDrawFromDiscardPile(topDiscardCard) with the argument
\* Player2Controller.drawCard passes; a hand with an undefined entry makes
\* the call throw
AskShouldDrawFromDiscardPile ==
  /\ ~HasUndefined(hand[1])
  /\ ret' = [draw |-> shouldDrawFromDiscardPile(Len(discardPile) > 0,
                                                 Top(discardPile), hand[1])]
  /\ lastRequest' = Request("shouldDrawFromDiscardPile", TRUE)
  /\ UNCHANGED <<deckVars, pileVars, hand, sprites, visible, currentPlayerIndex,
                 flagVars, knockedPlayer, isDealingCards, isAnimating, interactive,
                 shown, pointVars, dealing, flying, pileFlying, p1Anim, aiVars,
                 revealPc, boundVars>>

NextDraw ==
  \/ AskShouldDrawFromDiscardPile
  \/ ClickDrawCard
  \/ ClickDrawFromPile
  \/ DrawLand
  \/ ClickEndTurn
  \/ PerformTurn
  \/ Player2DrawLand
  \/ Player2Decide
  \/ Player2DiscardLand
  \/ Player2KnockDone
  \/ KnockCallbackFinish

SpecDraw == InitDraw /\ [][NextDraw]_vars

(***************************************************************************)
(* AIPlayer's three decisions on hands of four suits: hands of up to       *)
(* MaxHandLen + 1 distinct cards (a hand holds one card more between the   *)
(* draw and the discard), a discard pile that is empty or holds one card,  *)
(* an opponent whose three dealt cards are visible                         *)
(***************************************************************************)
ChoiceCards ==
  {Card("hearts", "K"), Card("hearts", "Q"), Card("spades", "A"),
   Card("spades", "K"), Card("diamonds", "3"), Card("diamonds", "5"),
   Card("flowers", "8")}

ChoiceHands ==
  UNION {{h \in [1..n -> ChoiceCards] : \A i, j \in 1..n : h[i] = h[j] => i = j} :
           n \in 0..(MaxHandLen + 1)}

ChoiceTops ==
  {Card("diamonds", "Q"), Card("diamonds", "A"), Card("hearts", "10"),
   Card("flowers", "J"), Card("spades", "4"), Card("diamonds", "8")}

ChoicePiles == {<<>>} \cup {<<t>> : t \in ChoiceTops}

InitChoice ==
  /\ \E h \in ChoiceHands, pile \in ChoicePiles :
       FreshTable(DrawDeck, [p \in {0, 1} |-> IF p = 1 THEN h ELSE DrawOpponentHand],
                  pile, {DrawOpponentHand[k] : k \in 1..Len(DrawOpponentHand)})
  /\ FreshControl
  /\ FreshSession

NextChoice ==
  \/ AskShouldDrawFromDiscardPile
  \/ AskSelectCardToDiscard
  \/ AskShouldKnock

SpecChoice == InitChoice /\ [][NextChoice]_vars

(***************************************************************************)
(* Properties of a round                                                   *)
(***************************************************************************)
\* the six cards and the first discard have been dealt and have landed
RoundDealt == dealing.cardCount = 6 /\ ~dealing.running /\ DealSettled

\* C1: once dealing has completed, the deck, gameState.discardPile and the
\* two hands of gameState.players hold 52 cards together
C1_CardConservation ==
  RoundDealt =>
    Len(cards) + Len(discardPile) + Len(hand[0]) + Len(hand[1]) = 52

\* C2: once dealing has completed each gameState.players[i].hand has 3 or 4
\* cards: 3 once that player has discarded, 4 between that player's draw
\* and discard
C2_HandSize ==
  RoundDealt =>
    /\ \A p \in {0, 1} : Len(hand[p]) \in {3, 4}
    /\ player1HasDiscarded => Len(hand[0]) = 3
    /\ player1HasDrawn /\ ~player1HasDiscarded => Len(hand[0]) = 4
    /\ player2HasDiscarded => Len(hand[1]) = 3
    /\ player2HasDrawn /\ ~player2HasDiscarded => Len(hand[1]) = 4

\* C3: the active player changes from 0 to 1 only when player 1 has drawn
\* and has discarded in the current turn
C3_EndTurnAfterDrawAndDiscard ==
  [][(currentPlayerIndex = 0 /\ currentPlayerIndex' = 1)
       => (player1HasDrawn /\ player1HasDiscarded)]_vars

\* C4: a discard gesture of player 1 made before player 1 has drawn in the
\* current turn is rejected: no card leaves the hand, nothing is pushed on
\* the discard pile, no flag, turn index or knock changes
C4_DiscardBeforeDrawRejected ==
  [][(~player1HasDrawn /\ lastRequest'.op = "discard") =>
       /\ ~lastRequest'.accepted
       /\ UNCHANGED <<hand, sprites, discardPile, pileChildren, flagVars,
                      currentPlayerIndex, knockedPlayer>>]_vars

\* player 1's turn, nothing running, three cards in hand, no draw yet: the
\* gesture has just been refused
C4_Witness ==
  /\ lastRequest = Request("discard", FALSE)
  /\ RoundDealt /\ currentPlayerIndex = 0 /\ ~isAnimating /\ knockedPlayer = -1
  /\ ~player1HasDrawn /\ ~player1HasDiscarded
  /\ Len(sprites[0]) = 3

\* player 1 has drawn and not yet discarded: the drawn card is on its way
\* to the hand or is the fourth card of the hand
DrawnNotDiscarded ==
  p1Anim.kind \in {"drawDeck", "drawPile"} \/ Len(sprites[0]) >= 4

\* C5: a draw (from the deck or the discard pile) requested by player 1
\* after a draw and before the discard, the first draw's animation running
\* or not, is rejected and leaves deck, discard pile and hands unchanged
C5_SecondDrawRejected ==
  [][(DrawnNotDiscarded /\ lastRequest'.op \in {"draw", "drawPile"}) =>
       /\ ~lastRequest'.accepted
       /\ UNCHANGED <<cards, deckChildren, discardPile, pileChildren, hand,
                      sprites>>]_vars

\* the second request came after the first draw had landed
C5_Witness ==
  /\ lastRequest \in {Request("draw", FALSE), Request("drawPile", FALSE)}
  /\ player1HasDrawn /\ ~player1HasDiscarded
  /\ Len(sprites[0]) = 4 /\ Len(discardPile) > 0
  /\ currentPlayerIndex = 0 /\ ~isAnimating

\* the cards player p holds: the sprites of the hand container and those
\* on their way to it
Holds(p) ==
  Len(sprites[p])
    + Cardinality({k \in 1..Len(flying) : flying[k].player = p})
    + (IF p = 0 /\ p1Anim.kind \in {"drawDeck", "drawPile"} THEN 1 ELSE 0)
    + (IF p = 1 /\ aiPc = "drawAnim" THEN 1 ELSE 0)

\* C6: whenever knockedPlayer is set to p, player p holds exactly 3 cards
\* and it is p's turn
C6_KnockWithThreeCards ==
  [][(knockedPlayer' # knockedPlayer /\ knockedPlayer' # -1) =>
       /\ Holds(knockedPlayer') = 3
       /\ currentPlayerIndex = knockedPlayer']_vars

\* player 1 has knocked after a draw and a discard
C6_Witness ==
  /\ knockedPlayer = 0 /\ lastRequest = Request("knock", TRUE)
  /\ player1HasDrawn /\ player1HasDiscarded
  /\ Holds(0) = 3

\* C7: once knockedPlayer is set, the deck, gameState.discardPile, both
\* hands, currentPlayerIndex and knockedPlayer stay as they are until the
\* game is restarted
C7_KnockTerminal ==
  [][(knockedPlayer # -1 /\ lastRequest'.op # "restart") =>
       UNCHANGED <<cards, discardPile, hand, currentPlayerIndex, knockedPlayer>>]_vars

\* C8: Deck.drawCard never returns the sentinel undefined: on an empty deck
\* it fails instead of returning
C8_EmptyDeckDrawFails == ret # Undefined

\* C9: the announced result follows the best-suit scores of the hands the
\* players hold when it is announced
C9_WinnerByActualHands ==
  winnerText # "" =>
    LET p1 == MaxPoints(sprites[0])
        p2 == MaxPoints(sprites[1])
    IN /\ winnerText = "Player 1 is the winner!" <=> p1 > p2
       /\ winnerText = "Player 2 is the winner!" <=> p1 < p2
       /\ winnerText = "The game is a draw!" <=> p1 = p2

(***************************************************************************)
(* Properties of the scoring                                               *)
(***************************************************************************)
\* the value of a rank: 11 for the ace, the face value for 2..9, 10 for
\* 10, J, Q and K (ranks lists A, 2, .., 10, J, Q, K)
RankValue(rank) ==
  LET k == CHOOSE i \in 1..Len(ranks) : ranks[i] = rank
  IN IF k = 1 THEN 11 ELSE IF k >= 10 THEN 10 ELSE k

\* the sum of the rank values of the cards of h whose suit symbol is sym
ValueOfSuit(h, sym) ==
  SeqSum([i \in 1..Len(h) |->
            IF getSuitSymbol(h[i].suit) = sym THEN RankValue(h[i].rank) ELSE 0])

\* C10: calculatePointsBySuit has exactly one entry per suit present in
\* the hand and none for an absent suit; an entry's value is the sum of the
\* rank values of that suit's cards; the best-suit score is the largest
\* entry; 7 and 9 of clubs with 2 of diamonds give clubs 16, diamonds 2,
\* best 16; A, K, Q of one suit give 31
C10_Scoring ==
  lastRequest.op = "calculatePointsBySuit" =>
    LET h == hand[1]
        out == ret.points
        present(sym) == \E i \in 1..Len(h) : getSuitSymbol(h[i].suit) = sym
    IN /\ \A sym \in {"H", "D", "C", "S"} :
            Cardinality({k \in 1..Len(out) : out[k][1] = sym})
              = IF present(sym) THEN 1 ELSE 0
       /\ \A k \in 1..Len(out) :
            /\ out[k][1] \in {"H", "D", "C", "S"}
            /\ out[k][2] = ValueOfSuit(h, out[k][1])
       /\ h # <<>> =>
            /\ \E k \in 1..Len(out) : out[k][2] = ret.best
            /\ \A k \in 1..Len(out) : out[k][2] <= ret.best
       /\ h = <<Card("flowers", "7"), Card("flowers", "9"), Card("diamonds", "2")>> =>
            /\ out = << <<"C", 16>>, <<"D", 2>> >>
            /\ ret.best = 16
       /\ h = <<Card("flowers", "A"), Card("flowers", "K"), Card("flowers", "Q")>> =>
            ret.best = 31

\* the hand 7, 9 of clubs and 2 of diamonds has been scored
C10_Witness ==
  /\ lastRequest.op = "calculatePointsBySuit"
  /\ hand[1] = <<Card("flowers", "7"), Card("flowers", "9"), Card("diamonds", "2")>>
  /\ ret.best = 16

(***************************************************************************)
(* Properties of the AI's decisions                                        *)
(***************************************************************************)
\* C11: for a 3-card hand whose best-suit score is 25 or more (31
\* included) shouldKnock returns true, whatever the opponent's visible
\* cards and the depth of the discard pile
C11_KnockFrom25 ==
  (lastRequest.op = "shouldKnock" /\ Len(hand[1]) = 3
     /\ \E sym \in {"H", "D", "C", "S"} : ValueOfSuit(hand[1], sym) >= 25)
    => ret.knock = TRUE

\* K, Q, 5 of spades (25) against an opponent none of whose cards is
\* visible, on an empty discard pile
C11_Witness ==
  /\ lastRequest.op = "shouldKnock"
  /\ hand[1] = <<Card("spades", "K"), Card("spades", "Q"), Card("spades", "5")>>
  /\ visible = {} /\ discardPile = <<>>
  /\ ret.knock = TRUE

\* the 0-based positions of h whose card is not of suit symbol sym
OffSuit(h, sym) == {i \in 0..(Len(h) - 1) : getSuitSymbol(h[i + 1].suit) # sym}

\* the suit symbols with three cards or more in h
LongSuits(h) ==
  {sym \in {"H", "D", "C", "S"} :
     Cardinality({i \in 1..Len(h) : getSuitSymbol(h[i].suit) = sym}) >= 3}

\* C12: when some suit has 3 cards or more and some card is of another
\* suit, selectCardToDiscard returns the index of the lowest-valued card
\* outside the highest-scoring such suit, the first in hand order among
\* equal values; for [A, K, Q of spades, 2 of hearts] it is the 2 of hearts
C12_DiscardOutsideLongSuit ==
  LET h == hand[1]
      keep == CHOOSE s \in LongSuits(h) :
                \A t \in LongSuits(h) : ValueOfSuit(h, s) >= ValueOfSuit(h, t)
  IN (lastRequest.op = "selectCardToDiscard" /\ LongSuits(h) # {}
        /\ OffSuit(h, keep) # {})
       => /\ ret.index \in OffSuit(h, keep)
          /\ \A j \in OffSuit(h, keep) :
               \/ RankValue(h[j + 1].rank) > RankValue(h[ret.index + 1].rank)
               \/ /\ RankValue(h[j + 1].rank) = RankValue(h[ret.index + 1].rank)
                  /\ j >= ret.index
          /\ h = <<Card("spades", "A"), Card("spades", "K"), Card("spades", "Q"),
                   Card("hearts", "2")>> => ret.index = 3

\* the hand A, K, Q of spades and 2 of hearts has been decided
C12_Witness ==
  /\ lastRequest.op = "selectCardToDiscard"
  /\ hand[1] = <<Card("spades", "A"), Card("spades", "K"), Card("spades", "Q"),
                 Card("hearts", "2")>>
  /\ ret.index = 3

(***************************************************************************)
(* Properties of the Deck                                                  *)
(***************************************************************************)
\* the cards new Deck makes of the first ns suits and the first nr ranks
DeckOf(ns, nr) == {Card(suits[i], ranks[j]) : i \in 1..ns, j \in 1..nr}

\* C13: a deck nothing has been drawn from, newly constructed or shuffled
\* again, holds every (suit, rank) combination of its suits and ranks
\* exactly once, 52 cards for the four suits and thirteen ranks; a deck
\* never holds a card twice
C13_DeckIsPermutation ==
  /\ \A i, j \in 1..Len(cards) : cards[i] = cards[j] => i = j
  /\ ret = NoReturn =>
       \E ns \in 1..Len(suits), nr \in 1..Len(ranks) :
         /\ Len(cards) = ns * nr
         /\ {cards[k] : k \in 1..Len(cards)} = DeckOf(ns, nr)
         /\ (ns = Len(suits) /\ nr = Len(ranks)) => Len(cards) = 52

\* the deck of all suits and ranks has been shuffled again
C13_Witness ==
  /\ lastRequest = Request("Deck.shuffle", TRUE)
  /\ Len(cards) = 52
  /\ {cards[k] : k \in 1..52} = DeckOf(4, 13)

(***************************************************************************)
(* Properties of dealing and of the turn guards                            *)
(***************************************************************************)
\* C14: at the moment dealing ends and player 1's controls are enabled
\* (isDealingCards and isAnimating cleared), each hand of gameState holds
\* exactly 3 cards, gameState.discardPile holds exactly 1 card, the deck
\* holds 45 cards and player 1 (index 0) is the active player
C14_DealingResult ==
  [][(isDealingCards /\ ~isDealingCards') =>
       /\ ~isAnimating' /\ PlayButtons \subseteq interactive'
       /\ Len(hand'[0]) = 3 /\ Len(hand'[1]) = 3
       /\ Len(discardPile') = 1
       /\ Len(cards') = 45
       /\ currentPlayerIndex' = 0]_vars

\* the requests player 1 makes with the buttons and the right click
Player1Requests == {"draw", "drawPile", "discard", "knock", "endTurn"}

\* C15: a draw, discard, knock or end-turn requested by player 1 while
\* currentPlayerIndex = 1 or while isAnimating is true is rejected and leaves
\* the deck, the discard pile, the hands, the flags and currentPlayerIndex
\* unchanged
C15_TurnGuard ==
  [][(lastRequest'.op \in Player1Requests /\ (currentPlayerIndex = 1 \/ isAnimating)) =>
       /\ ~lastRequest'.accepted
       /\ UNCHANGED <<deckVars, pileVars, hand, sprites, flagVars,
                      currentPlayerIndex, knockedPlayer, isAnimating,
                      isDealingCards, isProcessingTurn>>]_vars

\* player 1 right-clicks a second card while the first discard is in flight
C15_Witness ==
  /\ lastRequest = Request("discard", FALSE)
  /\ isAnimating /\ p1Anim.kind = "discard"
  /\ player1HasDrawn /\ ~player1HasDiscarded

\* player 2 takes a card into its hand, other than by the deal
Player2Draws == Len(hand'[1]) > Len(hand[1]) /\ ~dealing.running

\* player 2 gives a card from its hand
Player2Discards == Len(hand'[1]) < Len(hand[1]) /\ lastRequest'.op # "restart"

\* C16: at most one turn sequence of player 2 is in progress: performTurn
\* called while isProcessingTurn is true changes nothing, player 2 draws only
\* as a sequence starts and its discard ends the sequence, so it neither
\* draws twice nor discards twice within a turn
C16_OneTurnSequence ==
  [][/\ (lastRequest'.op = "performTurn" /\ isProcessingTurn) =>
          UNCHANGED <<deckVars, pileVars, hand, sprites, visible,
                      currentPlayerIndex, flagVars, knockedPlayer, isDealingCards,
                      isAnimating, interactive, shown, pointVars, dealing, flying,
                      pileFlying, p1Anim, aiVars, revealPc, boundVars, ret>>
     /\ Player2Draws => (~isProcessingTurn /\ isProcessingTurn' /\ ~player2HasDrawn)
     /\ Player2Discards => (isProcessingTurn /\ ~isProcessingTurn' /\ player2HasDrawn)]_vars

\* performTurn has been called again during player 2's draw animation
C16_Witness ==
  /\ lastRequest = Request("performTurn", FALSE)
  /\ isProcessingTurn /\ aiPc = "drawAnim"
  /\ Len(hand[1]) = 4 /\ ~player2HasDrawn

(***************************************************************************)
(* Properties of the alternation of turns                                  *)
(***************************************************************************)
\* C18: within a game currentPlayerIndex is 0 or 1; it changes from 0 to 1
\* only by an End Turn of player 1 that is accepted, and from 1 to 0 only as
\* a turn sequence of player 2 ends with a card of its hand put on the
\* discard pile; an accepted End Turn leaves exactly one call of performTurn
\* pending, and a turn sequence starts only from that call
C18_TurnAlternation ==
  [][/\ currentPlayerIndex' \in {0, 1}
     /\ (currentPlayerIndex = 0 /\ currentPlayerIndex' = 1) =>
          lastRequest' = Request("endTurn", TRUE)
     /\ (currentPlayerIndex = 1 /\ currentPlayerIndex' = 0 /\ lastRequest'.op # "restart") =>
          /\ isProcessingTurn /\ ~isProcessingTurn'
          /\ Len(hand'[1]) = Len(hand[1]) - 1
          /\ Len(discardPile') = Len(discardPile) + 1
          /\ \E k \in 1..Len(hand[1]) : Top(discardPile') = hand[1][k]
     /\ lastRequest' = Request("endTurn", TRUE) =>
          /\ currentPlayerIndex = 0 /\ currentPlayerIndex' = 1
          /\ aiPc = "idle" /\ ~isProcessingTurn /\ aiPc' = "timer"
     /\ (~isProcessingTurn /\ isProcessingTurn') =>
          /\ aiPc = "timer" /\ aiPc' # "timer"
          /\ currentPlayerIndex = 1]_vars

\* player 2 has ended its turn with a discard and player 1 has ended the
\* next turn
C18_Witness ==
  /\ turns = 2 /\ lastRequest = Request("endTurn", TRUE)
  /\ currentPlayerIndex = 1 /\ aiPc = "timer"
  /\ player2HasDiscarded /\ ~isProcessingTurn

\* C19: whenever the active player changes, the two per-turn flags of the
\* newly active player are false at the start of its turn
C19_FlagsResetOnTurnChange ==
  [][(currentPlayerIndex' # currentPlayerIndex /\ lastRequest'.op # "restart") =>
       IF currentPlayerIndex' = 0
         THEN ~player1HasDrawn' /\ ~player1HasDiscarded'
         ELSE ~player2HasDrawn' /\ ~player2HasDiscarded']_vars

(***************************************************************************)
(* Properties of the discard pile                                          *)
(***************************************************************************)
\* C20: gameState.discardPile is a stack.  A card that joins it becomes the
\* top and leaves the cards below as they are, and it is the card that was
\* discarded: the one player 1 right-clicked, or the one removed from
\* player 2's hand.  A draw from the pile removes the top card, the most
\* recently added one still in the pile, and adds exactly that card to the
\* hand of the active player; for player 2 it is the card
\* shouldDrawFromDiscardPile was asked about
C20_DiscardPileIsStack ==
  [][/\ (Len(discardPile') > Len(discardPile)) =>
          /\ Len(discardPile') = Len(discardPile) + 1
          /\ SubSeq(discardPile', 1, Len(discardPile)) = discardPile
          /\ p1Anim.kind = "discard" =>
               (discardPile'[Len(discardPile')] = p1Anim.card /\ p1Anim' = NoAnim)
          /\ aiPc = "discardAnim" =>
               /\ discardPile'[Len(discardPile')] = hand[1][aiIdx + 1]
               /\ hand'[1] = RemoveAt(hand[1], aiIdx)
     /\ (Len(discardPile') < Len(discardPile) /\ lastRequest'.op # "restart") =>
          /\ discardPile' = SubSeq(discardPile, 1, Len(discardPile) - 1)
          /\ hand'[currentPlayerIndex] =
               Append(hand[currentPlayerIndex], discardPile[Len(discardPile)])
          /\ hand'[1 - currentPlayerIndex] = hand[1 - currentPlayerIndex]
          /\ currentPlayerIndex = 1 =>
               /\ shouldDrawFromDiscardPile(TRUE, discardPile[Len(discardPile)], hand[1])
               /\ aiCard' = discardPile[Len(discardPile)]]_vars

\* player 1 has taken the top card of a pile of several cards
C20_Witness ==
  /\ lastRequest = Request("drawPile", TRUE)
  /\ p1Anim.kind = "drawPile"
  /\ Len(discardPile) >= 1
  /\ hand[0][Len(hand[0])] = p1Anim.card
  /\ turns >= 1

(***************************************************************************)
(* Termination of player 2's turn                                          *)
(***************************************************************************)
\* performTurn has returned after a knock, or after a discard with the turn
\* and the draw buttons given back to player 1
Player2TurnDone ==
  /\ ~isProcessingTurn
  /\ \/ knockedPlayer = 1
     \/ /\ player2HasDiscarded
        /\ currentPlayerIndex = 0
        /\ {"drawCardAction", "drawFromPile"} \subseteq interactive

C27_NoKnockAfterDraw ==
  [][/\ aiPc = "think" => aiPc' # "knockWait" /\ knockedPlayer' = knockedPlayer
     /\ (knockedPlayer' = 1 /\ knockedPlayer # 1)
          => (aiPc = "timer" /\ Len(hand[1]) = 3 /\ hand' = hand)]_vars

\* player 2 has drawn a fourth card, has passed the second knock check and
\* is discarding
C27_Witness ==
  /\ aiPc = "discardAnim"
  /\ Len(hand[1]) = 4
  /\ knockedPlayer = -1

(***************************************************************************)
(* The knocked event                                                       *)
(***************************************************************************)
\* the player index gameState._knockCallback was invoked with, while the
\* reveal it awaits is running; -1 while no invocation is running.  The
\* Knock button handler runs its own reveal (revealPc = "p1") and does not
\* invoke the callback.
KnockedEvent == IF revealPc = "p2" THEN 1 ELSE -1

\* C22: every knock emits the knocked event: in the step in which
\* knockedPlayer becomes 0 or 1, the registered knock callback is invoked
\* with that player's index.
C22_KnockEmitsEvent ==
  [][(knockedPlayer' # knockedPlayer /\ knockedPlayer' # -1)
       => KnockedEvent' = knockedPlayer']_vars

(***************************************************************************)
(* Restart                                                                 *)
(***************************************************************************)
\* C23: Restart Game yields a fresh round whatever the round before left
\* behind: a newly built deck holding each of the 52 cards once, two empty
\* hands and hand containers, an empty discard pile, currentPlayerIndex 0,
\* the four hasDrawn/hasDiscarded flags false, no knockedPlayer, and no
\* animation, dealing or turn of player 2 in progress.
C23_RestartIsFresh ==
  [][lastRequest'.op = "restart" =>
       /\ Len(cards') = 52
       /\ {cards'[k] : k \in 1..Len(cards')} = DeckOf(Len(suits), Len(ranks))
       /\ deckChildren' = 53
       /\ hand' = NoHands /\ sprites' = NoHands /\ visible' = {}
       /\ discardPile' = <<>> /\ pileChildren' = 0
       /\ currentPlayerIndex' = 0
       /\ ~player1HasDrawn' /\ ~player1HasDiscarded'
       /\ ~player2HasDrawn' /\ ~player2HasDiscarded'
       /\ knockedPlayer' = -1
       /\ ~isProcessingTurn' /\ aiPc' = "idle"
       /\ ~isDealingCards' /\ ~isAnimating' /\ ~dealing'.running
       /\ flying' = <<>> /\ pileFlying' = <<>> /\ p1Anim' = NoAnim
       /\ revealPc' = "none"]_vars

\* the game has been restarted after a round in which player 1 ended a turn
C23_Witness ==
  /\ lastRequest = Request("restart", TRUE)
  /\ restarts = 1
  /\ turns >= 1

(***************************************************************************)
(* Whose hand changes                                                      *)
(***************************************************************************)
\* C24: once the round is dealt, only the active player's hand changes:
\* while currentPlayerIndex is 0 no step modifies gameState.players[1].hand,
\* and while currentPlayerIndex is 1 (from player 1's End Turn until player
\* 2 hands the turn back, or knocks) no step modifies
\* gameState.players[0].hand.  Dealing fills both hands and a restart
\* replaces them.
C24_OnlyActiveHandChanges ==
  [][(~isDealingCards /\ lastRequest'.op # "restart") =>
       /\ currentPlayerIndex = 0 => hand'[1] = hand[1]
       /\ currentPlayerIndex = 1 => hand'[0] = hand[0]]_vars

\* both players have taken a card in their own turn: player 1's hand array
\* has grown (its discard does not shrink it) and player 2 is holding four
C24_Witness ==
  /\ currentPlayerIndex = 1
  /\ Len(hand[0]) = 4
  /\ Len(hand[1]) = 4

(***************************************************************************)
(* One draw and one discard in a turn of player 1                          *)
(***************************************************************************)
\* C25: player 1 draws at most once and discards at most once in a turn.
\* A draw is accepted only when player 1 has neither drawn nor discarded
\* in this turn and no draw or discard is in progress; a discard only
\* after the draw and before any discard; once set, the two flags stay set
\* until an End Turn is accepted or a round is started anew.  So the cards
\* player 1 has taken in a round (the hand array never shrinks) are at most
\* one for each turn.
C25_OneDrawOneDiscard ==
  [][/\ (lastRequest'.op \in {"draw", "drawPile"} /\ lastRequest'.accepted)
          => (~player1HasDrawn /\ ~player1HasDiscarded /\ p1Anim = NoAnim)
     /\ (lastRequest'.op = "discard" /\ lastRequest'.accepted)
          => (player1HasDrawn /\ ~player1HasDiscarded /\ p1Anim = NoAnim)
     /\ (\/ player1HasDrawn /\ ~player1HasDrawn'
         \/ player1HasDiscarded /\ ~player1HasDiscarded')
          => lastRequest'.op \in {"endTurn", "start", "restart"}
     /\ Len(hand'[0]) <= 3 + turns' + 1]_vars

\* player 1 has drawn and discarded, and a further draw request in the
\* same turn has been turned down
C25_Witness ==
  /\ currentPlayerIndex = 0
  /\ player1HasDrawn /\ player1HasDiscarded
  /\ lastRequest \in {Request("draw", FALSE), Request("drawPile", FALSE)}
  /\ Len(hand[0]) = 4

(***************************************************************************)
(* Properties of the choice between the deck and the discard pile          *)
(***************************************************************************)
\* shouldDrawFromDiscardPile has just returned ret.draw for the hand of
\* player 2 and a top discard card
DrawAsked ==
  /\ lastRequest = Request("shouldDrawFromDiscardPile", TRUE)
  /\ discardPile # <<>>
  /\ Len(hand[1]) > 0

TopSuit == getSuitSymbol(Top(discardPile).suit)

TopValue == rankOrder(Top(discardPile).rank)

\* C28: whenever the suit of the top discard card attains the maximum
\* per-suit total of player 2's non-empty hand, two suits tying for the
\* maximum included, shouldDrawFromDiscardPile returns true
C28_BestSuitMatch ==
  (DrawAsked /\ SuitTotal(hand[1], TopSuit) = MaxPoints(hand[1])) => ret.draw

C30_MediumCards ==
  (/\ DrawAsked
   /\ Len(hand[1]) = 3
   /\ MaxPoints(hand[1]) < 25
   /\ TopSuit # BestSuitEntry(hand[1])[1]) =>
    /\ TopValue \in 7..9 => (ret.draw <=> SuitCount(hand[1], TopSuit) >= 1)
    /\ TopValue \in 2..6 => ~ret.draw

\* the eight of diamonds lies on the pile, player 2 holds one diamond next
\* to two kings, and the answer is to take it
C30_Witness ==
  /\ lastRequest = Request("shouldDrawFromDiscardPile", TRUE)
  /\ hand[1] = <<Card("spades", "K"), Card("hearts", "K"), Card("diamonds", "3")>>
  /\ discardPile = <<Card("diamonds", "8")>>
  /\ ret = [draw |-> TRUE]

(***************************************************************************)
(* Properties of a draw from an empty discard pile                         *)
(***************************************************************************)
\* C21: a Draw from Pile request made while the pile is empty is not
\* accepted and changes neither the deck, the pile, the hands nor the
\* hasDrawn flags; a Draw Card request that follows it in the same turn is
\* accepted and takes the top card of the deck; player 2, whose turn starts
\* with an empty pile, draws from the deck unless it knocks
C21_EmptyPileDraw ==
  [][/\ (lastRequest'.op = "drawPile" /\ pileChildren = 0) =>
          /\ ~lastRequest'.accepted
          /\ UNCHANGED <<cards, deckChildren, discardPile, pileChildren, hand,
                         sprites, player1HasDrawn, player2HasDrawn, isAnimating,
                         p1Anim>>
     /\ (/\ lastRequest = Request("drawPile", FALSE) /\ pileChildren = 0
         /\ Delivered("drawCardAction") /\ ~DrawRejected
         /\ lastRequest'.op = "draw") =>
          /\ lastRequest'.accepted
          /\ hand'[0] = Append(hand[0], Top(cards))
          /\ cards' = Pop(cards)
     /\ (aiPc = "timer" /\ discardPile = <<>> /\ aiPc' # "timer") =>
          \/ aiPc' = "knockWait" /\ hand' = hand /\ cards' = cards
          \/ /\ aiPc' = "drawAnim"
             /\ hand'[1] = Append(hand[1], Top(cards))
             /\ cards' = Pop(cards)
             /\ UNCHANGED <<discardPile, pileChildren>>]_vars

\* player 1, free to draw, has just asked for a card of the empty pile
C21_Witness ==
  /\ lastRequest = Request("drawPile", FALSE)
  /\ pileChildren = 0
  /\ Delivered("drawFromPile") /\ ~DrawRejected
  /\ cards = DrawDeck

(***************************************************************************)
(* Properties of the shape of player 2's turn                              *)
(***************************************************************************)
\* C26: a turn of player 2 that starts with three cards and does not knock
\* first adds exactly one card to player 2's hand, also when the deck or
\* the discard pile is empty, then removes exactly one, and player 2 holds
\* three cards when the turn passes back to player 1
C26_OneDrawThenOneDiscard ==
  [][/\ (/\ aiPc = "timer" /\ ~isProcessingTurn /\ Len(hand[1]) = 3
         /\ aiPc' \notin {"timer", "knockWait"}) =>
          /\ aiPc' = "drawAnim"
          /\ Len(hand'[1]) = 4
          /\ ~HasUndefined(hand'[1])
     /\ (aiPc \in {"drawAnim", "think"} /\ Len(hand[1]) = 4) =>
          /\ aiPc' \in {"drawAnim", "think", "discardAnim"}
          /\ hand'[1] = hand[1]
     /\ (aiPc = "discardAnim" /\ Len(hand[1]) = 4 /\ aiPc' # "discardAnim") =>
          /\ Len(hand'[1]) = 3
          /\ currentPlayerIndex' = 0
     /\ (currentPlayerIndex = 1 /\ currentPlayerIndex' = 0) =>
          aiPc = "discardAnim"]_vars

\* C31: for a hand of three cards whose best-suit total is below 25,
\* shouldDrawFromDiscardPile returns true for every top discard card of rank
\* value 10 or 11, whatever its suit and however many cards of that suit the
\* hand holds
C31_HighCards ==
  (DrawAsked /\ Len(hand[1]) = 3 /\ MaxPoints(hand[1]) < 25 /\ TopValue >= 10) =>
    ret.draw

\* the queen of diamonds lies on the pile and player 2 holds two diamonds
\* that are not its best suit
C31_Witness ==
  /\ lastRequest = Request("shouldDrawFromDiscardPile", TRUE)
  /\ hand[1] = <<Card("hearts", "K"), Card("diamonds", "3"), Card("diamonds", "5")>>
  /\ discardPile = <<Card("diamonds", "Q")>>
  /\ ret = [draw |-> TRUE]

\* the positions of player 2's cards of a suit, their number and their total
CardsOfSuit(s) == {k \in 1..Len(hand[1]) : hand[1][k].suit = s}

HeldSuits == {hand[1][k].suit : k \in 1..Len(hand[1])}

TotalOfSuit(s) == SeqSum([k \in 1..Len(hand[1]) |->
                            IF hand[1][k].suit = s THEN RankValue(hand[1][k].rank) ELSE 0])

\* no held suit has fewer cards, nor as many cards and a lower total
WeakestSuit(s) ==
  /\ s \in HeldSuits
  /\ \A t \in HeldSuits :
       \/ Cardinality(CardsOfSuit(t)) > Cardinality(CardsOfSuit(s))
       \/ /\ Cardinality(CardsOfSuit(t)) = Cardinality(CardsOfSuit(s))
          /\ TotalOfSuit(t) >= TotalOfSuit(s)

DiscardAsked == lastRequest = Request("selectCardToDiscard", TRUE)

\* C32: for a hand of four cards in which no suit has three or more cards,
\* selectCardToDiscard returns the index of the lowest-rank-value card of the
\* weakest suit (fewest cards, among those the lowest total); of cards of
\* that suit with equal rank values it is the first in hand order
C32_WeakestSuit ==
  (/\ DiscardAsked
   /\ Len(hand[1]) = 4
   /\ \A s \in HeldSuits : Cardinality(CardsOfSuit(s)) < 3) =>
    /\ ret.index + 1 \in 1..4
    /\ WeakestSuit(hand[1][ret.index + 1].suit)
    /\ \A k \in CardsOfSuit(hand[1][ret.index + 1].suit) :
         \/ RankValue(hand[1][k].rank) > RankValue(hand[1][ret.index + 1].rank)
         \/ /\ RankValue(hand[1][k].rank) = RankValue(hand[1][ret.index + 1].rank)
            /\ k >= ret.index + 1

\* two spades and two hearts: hearts is the weaker suit, king and queen
\* have the same rank value, the king comes first
C32_Witness ==
  /\ DiscardAsked
  /\ hand[1] = <<Card("spades", "A"), Card("spades", "K"),
                 Card("hearts", "K"), Card("hearts", "Q")>>
  /\ ret = [index |-> 2]

\* C40: selectCardToDiscard returns -1 for an empty hand and, for every
\* non-empty hand of up to four cards, an index i with 0 <= i < hand length
C40_IndexInRange ==
  DiscardAsked =>
    /\ Len(hand[1]) = 0 => ret.index = -1
    /\ Len(hand[1]) \in 1..4 => ret.index \in 0..(Len(hand[1]) - 1)

\* three spades and a heart: the heart, the last card of the hand, is chosen
C40_Witness ==
  /\ DiscardAsked
  /\ hand[1] = <<Card("spades", "A"), Card("spades", "K"),
                 Card("spades", "Q"), Card("hearts", "2")>>
  /\ ret = [index |-> 3]

\* the empty hand has been asked
C40_WitnessEmpty ==
  /\ DiscardAsked
  /\ hand[1] = <<>>
  /\ ret = [index |-> -1]

\* what each decision function returns on the table as it stands
DecisionOf(op) ==
  CASE op = "shouldDrawFromDiscardPile" ->
         [draw |-> shouldDrawFromDiscardPile(Len(discardPile) > 0, Top(discardPile), hand[1])]
    [] op = "selectCardToDiscard" -> [index |-> selectCardToDiscard(hand[1])]
    [] op = "shouldKnock" ->
         [knock |-> shouldKnock(hand[1], hand[0], visible, Len(discardPile))]

DecisionOps == {"shouldDrawFromDiscardPile", "selectCardToDiscard", "shouldKnock"}

KnockAsked == lastRequest = Request("shouldKnock", TRUE)

\* the opponent's cards marked visible, in hand order
VisibleOfOpponent == Filter(hand[0], visible)

\* C33: for a hand of three cards whose best-suit score is below 25, if the
\* number of opponent cards marked visible is at least the opponent's hand
\* size minus 1, shouldKnock returns true iff the best-suit score is at least
\* the best-suit score of the opponent's visible cards plus 1, at every depth
\* of the discard pile
C33_VisibleRule ==
  (/\ KnockAsked
   /\ Len(hand[1]) = 3
   /\ MaxPoints(hand[1]) < 25
   /\ Len(VisibleOfOpponent) >= Len(hand[0]) - 1) =>
    /\ ret.knock <=> MaxPoints(hand[1]) >= MaxPoints(VisibleOfOpponent) + 1
    /\ \A d \in 0..(MaxPileDepth + 2) :
         shouldKnock(hand[1], hand[0], visible, d) = ret.knock

\* 21 points against the 19 points seen in two of the opponent's three
\* cards, on an empty discard pile: player 2 knocks
C33_Witness ==
  /\ KnockAsked
  /\ hand[1] = <<Card("spades", "A"), Card("spades", "K"), Card("hearts", "2")>>
  /\ visible = {Card("diamonds", "9"), Card("diamonds", "10")}
  /\ discardPile = <<>>
  /\ ret = [knock |-> TRUE]

\* the opponent strength the estimate rule assumes at the depth of the pile
EstimateByDepth == IF Len(discardPile) > 3 THEN 21 ELSE 19

\* C34: whenever fewer than (opponent hand size - 1) opponent cards are
\* visible, some but not enough included, shouldKnock on a hand of three
\* cards returns true iff the best-suit score is at least the estimate (21
\* for a depth above 3, else 19) plus 2 at depth 3..5 and plus 1 at depth 6
\* or more
C34_EstimatedRule ==
  (/\ KnockAsked
   /\ Len(hand[1]) = 3
   /\ Len(VisibleOfOpponent) < Len(hand[0]) - 1) =>
    /\ Len(discardPile) \in 3..5 =>
         (ret.knock <=> MaxPoints(hand[1]) >= EstimateByDepth + 2)
    /\ Len(discardPile) >= 6 =>
         (ret.knock <=> MaxPoints(hand[1]) >= EstimateByDepth + 1)

\* the same with no opponent card visible at all
C34_NoneVisible ==
  (KnockAsked /\ Len(hand[1]) = 3 /\ VisibleOfOpponent = <<>>) =>
    /\ Len(discardPile) \in 3..5 =>
         (ret.knock <=> MaxPoints(hand[1]) >= EstimateByDepth + 2)
    /\ Len(discardPile) >= 6 =>
         (ret.knock <=> MaxPoints(hand[1]) >= EstimateByDepth + 1)

\* the rule for an opponent whose cards are mostly seen applies
VisibleRuleDecides ==
  /\ Len(VisibleOfOpponent) > 0
  /\ Len(VisibleOfOpponent) >= Len(hand[0]) - 1

\* C35: on a hand of three cards, when the discard pile holds fewer than 3
\* cards and the visible-card rule does not decide, shouldKnock returns true
\* exactly when the best-suit score is 25 or more: the flat threshold of 26
\* never turns a refusal into a knock
C35_EarlyGame ==
  (/\ KnockAsked
   /\ Len(hand[1]) = 3
   /\ Len(discardPile) < 3
   /\ ~VisibleRuleDecides) =>
    (ret.knock <=> MaxPoints(hand[1]) >= 25)

\* 25 points, below the flat threshold, one card on the pile, one opponent
\* card seen: player 2 knocks
C35_Witness ==
  /\ KnockAsked
  /\ hand[1] = <<Card("spades", "K"), Card("spades", "Q"), Card("spades", "5")>>
  /\ Len(discardPile) = 1
  /\ visible = {Card("diamonds", "9")}
  /\ ret = [knock |-> TRUE]

\* 21 points against one card seen, on an empty pile: no knock
C35_WitnessRefusal ==
  /\ KnockAsked
  /\ hand[1] = <<Card("spades", "A"), Card("spades", "K"), Card("hearts", "2")>>
  /\ Len(discardPile) = 0
  /\ visible = {Card("diamonds", "9")}
  /\ ret = [knock |-> FALSE]

C39_DrawOnlyBelow25 ==
  [][(/\ aiPc = "timer"
      /\ aiPc' \in {"drawAnim", "drawn"}
      /\ Len(hand[1]) = 3) => MaxPoints(hand[1]) < 25]_vars

\* player 2 has decided where to draw from with three cards and holds the
\* card it drew
C39_Witness ==
  /\ aiPc = "drawAnim"
  /\ Len(hand[1]) = 4
  /\ MaxPoints(SubSeq(hand[1], 1, 3)) < 25
  /\ knockedPlayer = -1

\* player 2 has knocked with 26 points in three cards without drawing
C39_WitnessKnock ==
  /\ aiPc = "knockWait"
  /\ Len(hand[1]) = 3
  /\ MaxPoints(hand[1]) >= 25
  /\ knockedPlayer = 1
  /\ ~player2HasDrawn

\* C38: a right click on a card, with as many "discardCard" listeners as
\* restarts have registered, removes at most one card from player 1's hand
\* and starts a discard that pushes at most one card onto the discard pile
C38_OneDiscardPerGesture ==
  [][/\ lastRequest'.op = "discard" =>
          /\ Len(sprites'[0]) >= Len(sprites[0]) - 1
          /\ Len(hand'[0]) >= Len(hand[0]) - 1
          /\ discardPile' = discardPile
     /\ p1Anim.kind = "discard" =>
          Len(discardPile') <= Len(discardPile) + 1]_vars

\* after a restart, with two listeners, player 1's discard has landed: the
\* pile holds the card turned at the deal and the discarded card
C38_Witness ==
  /\ listeners >= 2
  /\ player1HasDiscarded
  /\ p1Anim = NoAnim
  /\ Len(discardPile) = 2
  /\ Len(sprites[0]) = 3
====
